---------------------------- MODULE Spec2Model ----------------------------
(***************************************************************************)
(* Model of the Poseidon sea-level analysis engine                         *)
(* (src/src/components/poseidon/AnalysisEngine.ts).                        *)
(*                                                                         *)
(* Numbers.  The engine computes on IEEE doubles; the model is fixed       *)
(* point:                                                                  *)
(*   - a timestamp is Date.getTime() in whole seconds (1 minute = 60),     *)
(*   - a sea level is an integer number of millimetres (0.15 m = 150),     *)
(*   - a division is the floor of the exact quotient,                      *)
(*   - cos and sin are scaled by 10000 (Cos, Sin below),                   *)
(*   - a product with a scaled cos or sin is cut to whole millimetres.     *)
(* A DataPoint is [timestamp, seaLevel, originalIndex]; an optional value  *)
(* (config.startTime, event.endTime, ...) is a sequence of length 0 or 1.  *)
(* Arrays are sequences; the code's 0-based index i is position i+1.       *)
(***************************************************************************)
EXTENDS Integers, Sequences, FiniteSets, TLC

VARIABLES
    fileData,       \* the caller's sample array (Index.tsx fileData.data); the
                    \* engine keeps a reference to this same array as this.data
    config,         \* the caller's AnalysisConfig
    engine,         \* "none" | "constructed" | "done" | "failed"
    processedData,  \* the decomposition returned by runFullAnalysis
    events,         \* the event list returned by runFullAnalysis
    fnIn,           \* argument of the single function a function-level
                    \* specification applies
    fnOut           \* its result

vars == <<fileData, config, engine, processedData, events, fnIn, fnOut>>

---------------------------------------------------------------------------
(* Generic helpers *)

Abs(x) == IF x < 0 THEN -x ELSE x

Max(a, b) == IF a >= b THEN a ELSE b

Min(a, b) == IF a <= b THEN a ELSE b

\* The array whose i-th element is f[i], each element computed once.
ArrayOf(f) == f \o <<>>

\* array.reduce((sum, v) => sum + v, 0): the sum of s[lo..hi], by halves.
RECURSIVE SumRange(_, _, _)
SumRange(s, lo, hi) ==
    IF lo > hi THEN 0
    ELSE IF lo = hi THEN s[lo]
    ELSE LET mid == (lo + hi) \div 2 IN SumRange(s, lo, mid) + SumRange(s, mid + 1, hi)

SumSeq(s) == SumRange(s, 1, Len(s))

\* Array.prototype.slice(start, end) with 0-based, end-exclusive bounds.
Slice(arr, start, end) == SubSeq(arr, start + 1, Min(end, Len(arr)))

\* Array.prototype.splice(idx, 0, item): insert item at 0-based index idx.
Splice(arr, idx, item) ==
    SubSeq(arr, 1, idx) \o <<item>> \o SubSeq(arr, idx + 1, Len(arr))

Point(t, l, oi) == [timestamp |-> t, seaLevel |-> l, originalIndex |-> oi]

WithLevel(p, l) == [p EXCEPT !.seaLevel = l]

\* data.map(d => d.seaLevel)
Levels(data) == ArrayOf([i \in 1..Len(data) |-> data[i].seaLevel])

\* data.map(d => d.timestamp.getTime())
Times(data) == ArrayOf([i \in 1..Len(data) |-> data[i].timestamp])

\* Array.prototype.sort under a comparator whose sign is that of
\* key[a] - key[b]: the sort is stable, so element i goes to the place that
\* counts the elements with a smaller key and the earlier ones with the same key.
SortPlace(keys, i) ==
    1 + Cardinality({j \in 1..Len(keys) :
                        keys[j] < keys[i] \/ (keys[j] = keys[i] /\ j < i)})

StableSort(arr, keys) ==
    ArrayOf([k \in 1..Len(arr) |-> arr[CHOOSE i \in 1..Len(arr) : SortPlace(keys, i) = k]])

\* window.sort((a, b) => a - b), levels.sort((a, b) => a - b)
SortNum(s) == StableSort(s, s)

\* floor(sqrt(x)) for x >= 0.
RECURSIVE IsqrtFrom(_, _)
IsqrtFrom(x, r) == IF (r + 1) * (r + 1) > x THEN r ELSE IsqrtFrom(x, r + 1)

RECURSIVE Isqrt(_)
Isqrt(x) ==
    IF x < 4 THEN IsqrtFrom(x, 0)
    ELSE LET h == 2 * Isqrt(x \div 4) IN IF (h + 1) * (h + 1) > x THEN h ELSE h + 1

---------------------------------------------------------------------------
(* constructor: data.sort((a, b) => a.timestamp - b.timestamp).            *)
(* Array.prototype.sort is stable, so samples with equal timestamps keep   *)
(* the order they had in the argument.                                     *)

SortByTimestamp(data) ==
    StableSort(data, Times(data))

---------------------------------------------------------------------------
(* filterDataByTimeRange *)

\* this.config.startTime?.getTime() || 0: a missing bound and the epoch itself
\* both give 0.
RangeStart(cfg) == IF cfg.startTime = <<>> THEN 0 ELSE cfg.startTime[1]

\* this.config.endTime?.getTime() || Infinity: TRUE when the upper bound is
\* Infinity (a missing bound, or an endTime whose getTime() is 0).
RangeEndIsInfinity(cfg) == cfg.endTime = <<>> \/ cfg.endTime[1] = 0

InRange(cfg, point) ==
    /\ point.timestamp >= RangeStart(cfg)
    /\ RangeEndIsInfinity(cfg) \/ point.timestamp <= cfg.endTime[1]

FilterDataByTimeRange(data, cfg) ==
    IF cfg.startTime = <<>> /\ cfg.endTime = <<>> THEN data
    ELSE SelectSeq(data, LAMBDA point : InRange(cfg, point))

---------------------------------------------------------------------------
(* smoothData: moving median, window of 5 *)

\* A faulty window of three samples, one on each side.
SmoothWindowOfThree(data, index) ==
    SortNum(Levels(Slice(data, Max(0, index - 1), Min(Len(data), index + 2))))

\* A faulty window that trails the sample (the five samples ending at index)
\* instead of being centred on it; MonotonicInteriorKept rejects it.
SmoothWindowTrailing(data, index) ==
    SortNum(Levels(Slice(data, Max(0, index - 4), Min(Len(data), index + 1))))

SmoothWindow(data, index) ==
    LET windowSize == 5
        start == Max(0, index - (windowSize \div 2))
        end   == Min(Len(data), index + (windowSize \div 2) + 1)
    IN  SortNum(Levels(Slice(data, start, end)))

\* A faulty median that takes the lower of the two middle elements of an
\* even-sized window; SmoothedByWindowMedian rejects it.
MedianLower(window) == window[(Len(window) + 1) \div 2]

Median(window) == window[(Len(window) \div 2) + 1]

\* The argument array after smoothData has run: window is a fresh array
\* (data.slice(...).map(...)), so window.sort reorders that copy, and each
\* returned sample is a new object ({ ...point, seaLevel }); data is never
\* written.
SmoothDataArgument(data) == data

SmoothData(data) ==
    ArrayOf([i \in 1..Len(data) |-> WithLevel(data[i], Median(SmoothWindow(data, i - 1)))])

---------------------------------------------------------------------------
(* fillGaps: linear interpolation, splicing into the array being walked *)

\* const expectedInterval = 60000 (ms): one minute, 60 in the model's seconds.
expectedInterval == 60

\* A faulty inner loop that splices one position too far, behind the sample
\* that closes the gap; GapsKeepInputInOrder rejects it.
RECURSIVE FillOneGapBehind(_, _, _, _, _)
FillOneGapBehind(result, i, j, steps, levelDiff) ==
    IF j > steps THEN result
    ELSE FillOneGapBehind(Splice(result, i + j,
                                 Point(result[i].timestamp + j * expectedInterval,
                                       result[i].seaLevel + ((levelDiff * j) \div (steps + 1)),
                                       -1)),
                          i, j + 1, steps, levelDiff)

\* for (let j = 1; j <= steps; j++) { ... result.splice(i-1+j, 0, {...}) }
RECURSIVE FillOneGap(_, _, _, _, _)
FillOneGap(result, i, j, steps, levelDiff) ==
    IF j > steps THEN result
    ELSE LET prev == result[i]     \* result[i-1] of the code
             newTimestamp == prev.timestamp + j * expectedInterval
             newLevel == prev.seaLevel + ((levelDiff * j) \div (steps + 1))
         IN  FillOneGap(Splice(result, i - 1 + j, Point(newTimestamp, newLevel, -1)),
                        i, j + 1, steps, levelDiff)

\* A faulty fillGaps loop that takes a delta of exactly twice the expected
\* interval for a gap (>= for >); GapsFilledAsSpecified rejects it.
RECURSIVE FillGapsFromInclusive(_, _)
FillGapsFromInclusive(result, i) ==
    IF i >= Len(result) THEN result
    ELSE LET timeDiff == result[i + 1].timestamp - result[i].timestamp
         IN  IF timeDiff >= expectedInterval * 2
             THEN LET steps == (timeDiff \div expectedInterval) - 1
                      levelDiff == result[i + 1].seaLevel - result[i].seaLevel
                  IN  FillGapsFromInclusive(FillOneGap(result, i, 1, steps, levelDiff),
                                            i + steps + 1)
             ELSE FillGapsFromInclusive(result, i + 1)

\* for (let i = 1; i < result.length; i++) { ... i += steps; }
RECURSIVE FillGapsFrom(_, _)
FillGapsFrom(result, i) ==
    IF i >= Len(result) THEN result
    ELSE LET timeDiff == result[i + 1].timestamp - result[i].timestamp
         IN  IF timeDiff > expectedInterval * 2
             THEN LET steps == (timeDiff \div expectedInterval) - 1
                      levelDiff == result[i + 1].seaLevel - result[i].seaLevel
                  IN  FillGapsFrom(FillOneGap(result, i, 1, steps, levelDiff),
                                   i + steps + 1)
             ELSE FillGapsFrom(result, i + 1)

\* A faulty fillGaps whose loop starts at i = 2 and so never looks at the
\* first pair of samples; NoGapAboveTwoIntervals rejects it.
FillGapsAfterFirstPair(data) == FillGapsFrom(data, 2)

FillGaps(data) == FillGapsFrom(data, 1)

---------------------------------------------------------------------------
(* Math.cos, Math.sin of 2*PI*k/n, scaled by 10000.                        *)
(* The angle is reduced to a quarter turn; within it cos is the Taylor     *)
(* polynomial to the 8th power, evaluated in fixed point.                  *)

\* The polynomial 1 - x^2/2 + x^4/24 - x^6/720 + x^8/40320 at scale 10000,
\* from t2 = x^2 and t4 = x^4.
TaylorCos(t2, t4) ==
    10000 - (t2 \div 2) + (t4 \div 24) - (((t4 * t2) \div 10000) \div 720)
        + ((((t4 \div 10) * (t4 \div 10)) \div 100) \div 40320)

SquareOf(t) == (t * t) \div 10000

\* 10000 * cos((PI/2) * r/n) for 0 <= r <= n.
QuarterCos(r, n) ==
    TaylorCos(SquareOf((15708 * r) \div n), SquareOf(SquareOf((15708 * r) \div n)))

\* 10000 * cos of the angle q quarter turns plus r/n of a quarter turn.
QuadrantCos(q, r, n) ==
    (IF q \in {1, 2} THEN -1 ELSE 1) * QuarterCos(IF q \in {0, 2} THEN r ELSE n - r, n)

\* 10000 * sin of the same angle.
QuadrantSin(q, r, n) ==
    (IF q \in {2, 3} THEN -1 ELSE 1) * QuarterCos(IF q \in {0, 2} THEN n - r ELSE r, n)

\* 10000 * cos(2*PI*k/n), k any integer, n > 0.
Cos(k, n) == QuadrantCos((4 * (k % n)) \div n, (4 * (k % n)) % n, n)

\* 10000 * sin(2*PI*k/n).
Sin(k, n) == QuadrantSin((4 * (k % n)) \div n, (4 * (k % n)) % n, n)

\* 10000 * (cos(2*PI*k/n) + sin(2*PI*k/n)).
CosPlusSin(k, n) == Cos(k, n) + Sin(k, n)

\* x / 10000 rounded toward zero, for a product with a scaled cos or sin.
Unscale(x) == IF x < 0 THEN -((-x) \div 10000) ELSE x \div 10000

---------------------------------------------------------------------------
(* extractTidalComponent *)

\* const periods = [12.42, 12.0, 23.93, 25.82] (hours), here in seconds:
\* omega * times[i] = 2*PI * timestamp / period.
periods == <<44712, 43200, 86148, 92952>>

\* mean of an array of numbers; the empty array has no model value (0/0 is
\* NaN in the code) and callers below use it only on non-empty arrays.
Mean(values) == SumSeq(values) \div Len(values)

\* 2 * Math.sqrt(sumCos * sumCos + sumSin * sumSin) / n
AmplitudeOf(sumCos, sumSin, n) == (2 * Isqrt(sumCos * sumCos + sumSin * sumSin)) \div n

\* estimateAmplitude(values, times, omega), omega = 2*PI/period.
EstimateAmplitude(values, times, period) ==
    AmplitudeOf(SumSeq([i \in 1..Len(values) |-> Unscale(values[i] * Cos(times[i], period))]),
                SumSeq([i \in 1..Len(values) |-> Unscale(values[i] * Sin(times[i], period))]),
                Len(values))

\* const amplitudes = periods.map(period => this.estimateAmplitude(...))
Amplitudes(values, times) ==
    ArrayOf([p \in 1..Len(periods) |-> EstimateAmplitude(values, times, periods[p])])

\* let tidalValue = mean; periods.forEach(... tidalValue += amplitude * cos(omega * t))
TidalValue(mean, amplitudes, t) ==
    mean + SumSeq([p \in 1..Len(periods) |-> Unscale(amplitudes[p] * Cos(t, periods[p]))])

\* return data.map((point, i) => ({ ...point, seaLevel: tidalValue }))
HarmonicModel(data, mean, amplitudes) ==
    ArrayOf([i \in 1..Len(data) |->
        WithLevel(data[i], TidalValue(mean, amplitudes, data[i].timestamp))])

HarmonicTidalFit(data) ==
    HarmonicModel(data, Mean(Levels(data)), Amplitudes(Levels(data), Times(data)))

\* A faulty moving average over two samples on each side.
LowpassShortWindow(data) ==
    LET windowSize == 2
        tidalLevel(index) ==
            LET start == Max(0, index - windowSize)
                end   == Min(Len(data), index + windowSize + 1)
            IN  Mean(Levels(Slice(data, start, end)))
    IN  ArrayOf([i \in 1..Len(data) |-> WithLevel(data[i], tidalLevel(i - 1))])

LowpassTidalFilter(data) ==
    LET windowSize == 4 * 60
        tidalLevel(index) ==
            LET start == Max(0, index - windowSize)
                end   == Min(Len(data), index + windowSize + 1)
            IN  Mean(Levels(Slice(data, start, end)))
    IN  ArrayOf([i \in 1..Len(data) |-> WithLevel(data[i], tidalLevel(i - 1))])

ExtractTidalComponent(data, cfg) ==
    IF cfg.tideRemovalMethod = "harmonic" THEN HarmonicTidalFit(data)
    ELSE LowpassTidalFilter(data)

---------------------------------------------------------------------------
(* detrendData, calculateResiduals *)

\* A faulty detrendData that maps only over the measured samples and leaves
\* out the interpolated ones (originalIndex = -1); SeriesAligned rejects it.
DetrendMeasured(original, tidal) ==
    SelectSeq([i \in 1..Len(original) |->
                  WithLevel(original[i],
                            original[i].seaLevel
                                - (IF i <= Len(tidal) THEN tidal[i].seaLevel ELSE 0))],
              LAMBDA point : point.originalIndex >= 0)

\* tidal[index]?.seaLevel || 0
DetrendData(original, tidal) ==
    ArrayOf([i \in 1..Len(original) |->
        WithLevel(original[i],
                  original[i].seaLevel - (IF i <= Len(tidal) THEN tidal[i].seaLevel ELSE 0))])

\* A faulty calculateResiduals that removes the tide from the detrended
\* series, so twice from the original; DecompositionExact rejects it.
ResidualsOfDetrended(original, tidal) == DetrendData(DetrendData(original, tidal), tidal)

CalculateResiduals(original, tidal) == DetrendData(original, tidal)

---------------------------------------------------------------------------
(* DetectedEvent.  id is the template string's parts, e.g. `spike-${i}` is  *)
(* <<"spike", i>>; label and explanation (text formatted from the fields   *)
(* below) are left out; properties is the list of <<name, value>>.         *)

Event(id, type, startTime, endTime, peak, confidence, amplitude, period, properties) ==
    [id |-> id, type |-> type, startTime |-> startTime, endTime |-> endTime,
     peak |-> peak, confidence |-> confidence, amplitude |-> amplitude,
     period |-> period, properties |-> properties]

\* events.push(...) of each element of ss in turn: ss[lo] \o ... \o ss[hi], by
\* halves.
RECURSIVE FlattenRange(_, _, _)
FlattenRange(ss, lo, hi) ==
    IF lo > hi THEN <<>>
    ELSE IF lo = hi THEN ss[lo] \o <<>>
    ELSE LET mid == (lo + hi) \div 2
         IN  FlattenRange(ss, lo, mid) \o FlattenRange(ss, mid + 1, hi)

Flatten(ss) == FlattenRange(ss, 1, Len(ss))

---------------------------------------------------------------------------
(* detectTidalPhases *)

\* A faulty loop body in which the three checks are branches of one
\* if / else if chain, so that a peak or a trough suppresses the phase
\* event; TidalChecksIndependent rejects it.
TidalPhasesExclusive(tidal, i) ==
    LET prevSlope == tidal[i + 1].seaLevel - tidal[i].seaLevel
        nextSlope == tidal[i + 2].seaLevel - tidal[i + 1].seaLevel
    IN  IF prevSlope > 20 /\ nextSlope < -20
        THEN <<Event(<<"high-tide", i>>, "High Tide", tidal[i + 1].timestamp, <<>>, <<>>,
                     "High", <<tidal[i + 1].seaLevel>>, <<>>,
                     << <<"level", tidal[i + 1].seaLevel>>, <<"slope_in", prevSlope>>,
                        <<"slope_out", nextSlope>> >>)>>
        ELSE IF prevSlope < -20 /\ nextSlope > 20
        THEN <<Event(<<"low-tide", i>>, "Low Tide", tidal[i + 1].timestamp, <<>>, <<>>,
                     "High", <<tidal[i + 1].seaLevel>>, <<>>,
                     << <<"level", tidal[i + 1].seaLevel>>, <<"slope_in", prevSlope>>,
                        <<"slope_out", nextSlope>> >>)>>
        ELSE IF Abs(prevSlope) > 20
        THEN <<Event(<<IF prevSlope > 0 THEN "rising-tide" ELSE "falling-tide", i>>,
                     IF prevSlope > 0 THEN "Rising Tide" ELSE "Falling Tide",
                     tidal[i].timestamp, <<tidal[i + 1].timestamp>>, <<>>,
                     IF Abs(prevSlope) > 40 THEN "High" ELSE "Medium", <<>>, <<>>,
                     << <<"slope", prevSlope>> >>)>>
        ELSE <<>>

\* The events pushed in one pass of the loop body, i the code's index.
TidalPhasesAt(tidal, i) ==
    LET threshold == 20
        prev == tidal[i]
        curr == tidal[i + 1]
        next == tidal[i + 2]
        prevSlope == curr.seaLevel - prev.seaLevel
        nextSlope == next.seaLevel - curr.seaLevel
        type == IF prevSlope > 0 THEN "Rising Tide" ELSE "Falling Tide"
        confidence == IF Abs(prevSlope) > threshold * 2 THEN "High" ELSE "Medium"
    IN  (IF prevSlope > threshold /\ nextSlope < -threshold
         THEN <<Event(<<"high-tide", i>>, "High Tide", curr.timestamp, <<>>, <<>>, "High",
                      <<curr.seaLevel>>, <<>>,
                      << <<"level", curr.seaLevel>>, <<"slope_in", prevSlope>>,
                         <<"slope_out", nextSlope>> >>)>>
         ELSE <<>>)
        \o
        (IF prevSlope < -threshold /\ nextSlope > threshold
         THEN <<Event(<<"low-tide", i>>, "Low Tide", curr.timestamp, <<>>, <<>>, "High",
                      <<curr.seaLevel>>, <<>>,
                      << <<"level", curr.seaLevel>>, <<"slope_in", prevSlope>>,
                         <<"slope_out", nextSlope>> >>)>>
         ELSE <<>>)
        \o
        (IF Abs(prevSlope) > threshold
         THEN <<Event(<<IF prevSlope > 0 THEN "rising-tide" ELSE "falling-tide", i>>, type,
                      prev.timestamp, <<curr.timestamp>>, <<>>, confidence, <<>>, <<>>,
                      << <<"slope", prevSlope>> >>)>>
         ELSE <<>>)

\* for (let i = 1; i < tidal.length - 1; i++)
DetectTidalPhases(data, tidal) ==
    Flatten([i \in 1..(Len(tidal) - 2) |-> TidalPhasesAt(tidal, i)])

---------------------------------------------------------------------------
(* detectStormSurges *)

surgeThreshold == 150

sustainedDuration == 60

\* A faulty surge event whose confidence is High as soon as the peak is above
\* the surge threshold itself; SurgeOfTwentyCentimetres rejects it.
SurgeEventAlwaysHigh(residuals, surgeStart, i, maxSurge, maxSurgeTime) ==
    Event(<<"storm-surge", surgeStart>>, "Storm Surge",
          residuals[surgeStart + 1].timestamp, <<residuals[i].timestamp>>,
          <<maxSurgeTime>>, IF maxSurge > surgeThreshold THEN "High" ELSE "Medium",
          <<maxSurge>>, <<>>,
          << <<"peak_amplitude", maxSurge>>, <<"duration_minutes", i - surgeStart>>,
             <<"surge_type", IF residuals[surgeStart + 1].seaLevel > 0
                             THEN "positive" ELSE "negative">> >>)

SurgeEvent(residuals, surgeStart, i, maxSurge, maxSurgeTime) ==
    LET duration == i - surgeStart
        confidence == IF maxSurge > surgeThreshold * 2 THEN "High" ELSE "Medium"
    IN  Event(<<"storm-surge", surgeStart>>, "Storm Surge",
              residuals[surgeStart + 1].timestamp, <<residuals[i].timestamp>>,
              <<maxSurgeTime>>, confidence, <<maxSurge>>, <<>>,
              << <<"peak_amplitude", maxSurge>>, <<"duration_minutes", duration>>,
                 <<"surge_type", IF residuals[surgeStart + 1].seaLevel > 0
                                 THEN "positive" ELSE "negative">> >>)

\* One pass of the loop body at index i.  acc = [surgeStart (<<>> is null),
\* maxSurge, maxSurgeTime, events].
SurgeStep(residuals, i, acc) ==
    LET level == Abs(residuals[i + 1].seaLevel)
    IN  IF level > surgeThreshold
        THEN IF acc.surgeStart = <<>>
             THEN [acc EXCEPT !.surgeStart = <<i>>, !.maxSurge = level,
                              !.maxSurgeTime = residuals[i + 1].timestamp]
             ELSE IF level > acc.maxSurge
             THEN [acc EXCEPT !.maxSurge = level,
                              !.maxSurgeTime = residuals[i + 1].timestamp]
             ELSE acc
        ELSE IF acc.surgeStart # <<>>
             THEN [surgeStart |-> <<>>, maxSurge |-> 0, maxSurgeTime |-> 0,
                   events |-> IF i - acc.surgeStart[1] >= sustainedDuration
                              THEN Append(acc.events,
                                          SurgeEvent(residuals, acc.surgeStart[1], i,
                                                     acc.maxSurge, acc.maxSurgeTime))
                              ELSE acc.events]
             ELSE acc

\* The passes lo .. hi-1 in order, run by halves: the state after the left
\* half is computed (its event list measured) before the right half starts.
RECURSIVE SurgeLoop(_, _, _, _)
SurgeLoop(residuals, lo, hi, acc) ==
    IF lo >= hi THEN acc
    ELSE IF hi = lo + 1 THEN SurgeStep(residuals, lo, acc)
    ELSE LET mid == (lo + hi) \div 2
             left == SurgeLoop(residuals, lo, mid, acc)
         IN  IF Len(left.events) >= 0 THEN SurgeLoop(residuals, mid, hi, left) ELSE acc

\* for (let i = 0; i < residuals.length; i++) { ... } return events
DetectStormSurges(residuals) ==
    SurgeLoop(residuals, 0, Len(residuals),
              [surgeStart |-> <<>>, maxSurge |-> 0, maxSurgeTime |-> 0,
               events |-> <<>>]).events

---------------------------------------------------------------------------
(* detectDataArtifacts *)

spikeThreshold == 500

flatlineThreshold == 1

minFlatlineDuration == 30

SpikeAt(data, i) ==
    LET change == Abs(data[i + 1].seaLevel - data[i].seaLevel)
    IN  IF change > spikeThreshold
        THEN <<Event(<<"spike", i>>, "Spike", data[i + 1].timestamp, <<>>, <<>>, "High",
                     <<change>>, <<>>,
                     << <<"magnitude", change>>, <<"previous_level", data[i].seaLevel>>,
                        <<"current_level", data[i + 1].seaLevel>> >>)>>
        ELSE <<>>

DetectSpikes(data) == Flatten([i \in 1..(Len(data) - 1) |-> SpikeAt(data, i)])

FlatlineEvent(data, flatlineStart, i, flatlineValue) ==
    Event(<<"flatline", flatlineStart>>, "Flatline", data[flatlineStart + 1].timestamp,
          <<data[i].timestamp>>, <<>>, "High", <<>>, <<>>,
          << <<"constant_value", flatlineValue>>, <<"duration_minutes", i - flatlineStart>> >>)

\* One pass of the flatline loop body at index i.  acc = [flatlineStart (<<>>
\* is null), flatlineValue, events].
FlatlineStep(data, i, acc) ==
    LET change == Abs(data[i + 1].seaLevel - data[i].seaLevel)
    IN  IF change <= flatlineThreshold
        THEN IF acc.flatlineStart = <<>>
             THEN [acc EXCEPT !.flatlineStart = <<i - 1>>,
                              !.flatlineValue = data[i].seaLevel]
             ELSE acc
        ELSE IF acc.flatlineStart # <<>>
             THEN [flatlineStart |-> <<>>, flatlineValue |-> 0,
                   events |-> IF i - acc.flatlineStart[1] >= minFlatlineDuration
                              THEN Append(acc.events,
                                          FlatlineEvent(data, acc.flatlineStart[1], i,
                                                        acc.flatlineValue))
                              ELSE acc.events]
             ELSE acc

\* The passes lo .. hi-1 in order, run by halves as in SurgeLoop.
RECURSIVE FlatlineLoop(_, _, _, _)
FlatlineLoop(data, lo, hi, acc) ==
    IF lo >= hi THEN acc
    ELSE IF hi = lo + 1 THEN FlatlineStep(data, lo, acc)
    ELSE LET mid == (lo + hi) \div 2
             left == FlatlineLoop(data, lo, mid, acc)
         IN  IF Len(left.events) >= 0 THEN FlatlineLoop(data, mid, hi, left) ELSE acc

\* for (let i = 1; i < data.length; i++) { ... }
DetectFlatlines(data) ==
    FlatlineLoop(data, 1, Len(data),
                 [flatlineStart |-> <<>>, flatlineValue |-> 0, events |-> <<>>]).events

DetectDataArtifacts(data) == DetectSpikes(data) \o DetectFlatlines(data)

---------------------------------------------------------------------------
(* detectExtremeLevels *)

\* A faulty isExtreme that looks only at the deviation from the mean.
ExtremeAtThresholdOnly(point, mean, p1, p99, threshold) ==
    IF Abs(point.seaLevel - mean) > threshold
    THEN <<Event(<<"extreme", point.timestamp>>, "Extreme Level", point.timestamp,
                 <<>>, <<>>,
                 IF 2 * Abs(point.seaLevel - mean) > 3 * threshold THEN "High" ELSE "Medium",
                 <<Abs(point.seaLevel - mean)>>, <<>>,
                 << <<"level", point.seaLevel>>,
                    <<"deviation_from_mean", point.seaLevel - mean>>,
                    <<"percentile", "threshold">> >>)>>
    ELSE <<>>

\* A faulty detectExtremeLevels test that leaves out the deviation from the
\* mean and flags on the percentile bounds alone; ExtremesFlaggedExactly
\* rejects it.
ExtremeAtPercentilesOnly(point, mean, p1, p99, threshold) ==
    IF point.seaLevel <= p1 \/ point.seaLevel >= p99
    THEN <<Event(<<"extreme", point.timestamp>>, "Extreme Level", point.timestamp,
                 <<>>, <<>>, "Medium", <<Abs(point.seaLevel - mean)>>, <<>>,
                 << <<"level", point.seaLevel>>,
                    <<"deviation_from_mean", point.seaLevel - mean>>,
                    <<"percentile", IF point.seaLevel <= p1 THEN "1st" ELSE "99th">> >>)>>
    ELSE <<>>

ExtremeAt(point, mean, p1, p99, threshold) ==
    LET isExtreme == \/ point.seaLevel <= p1
                     \/ point.seaLevel >= p99
                     \/ Abs(point.seaLevel - mean) > threshold
        confidence == IF 2 * Abs(point.seaLevel - mean) > 3 * threshold
                      THEN "High" ELSE "Medium"
    IN  IF isExtreme
        THEN <<Event(<<"extreme", point.timestamp>>, "Extreme Level", point.timestamp,
                     <<>>, <<>>, confidence, <<Abs(point.seaLevel - mean)>>, <<>>,
                     << <<"level", point.seaLevel>>,
                        <<"deviation_from_mean", point.seaLevel - mean>>,
                        <<"percentile", IF point.seaLevel <= p1 THEN "1st"
                                        ELSE IF point.seaLevel >= p99 THEN "99th"
                                        ELSE "threshold">> >>)>>
        ELSE <<>>

\* A faulty detectExtremeLevels that sorts the series it was given instead of
\* a copy of its levels, leaving the samples in ascending level order;
\* DetectorsLeaveDecomposition rejects it.
SortedByLevel(data) == StableSort(data, Levels(data))

\* The series handed to detectExtremeLevels after it has run: levels is a
\* fresh array (data.map(p => p.seaLevel)) and levels.sort sorts that, and
\* data.forEach only reads; data is never written.
ExtremeLevelsArgument(data) == data

\* levels is a copy (data.map), so levels.sort leaves data alone.  On the
\* empty series mean is NaN and p1, p99 are undefined, and forEach visits
\* nothing.
DetectExtremeLevels(data, cfg) ==
    IF data = <<>> THEN <<>>
    ELSE LET levels == SortNum(Levels(data))
             mean == Mean(Levels(data))
             p1  == levels[(Len(levels) \div 100) + 1]
             p99 == levels[((Len(levels) * 99) \div 100) + 1]
         IN  Flatten([i \in 1..Len(data) |->
                        ExtremeAt(data[i], mean, p1, p99, cfg.extremeThreshold)])

---------------------------------------------------------------------------
(* computeSpectralAnalysis.  With n samples freqStep is 0.5/(n/2) = 1/n, so *)
(* bin i has frequency i/n cycles per minute; a frequency is kept as the   *)
(* exact fraction <<i, n>>, and a period 1/freq as <<n, i>>.               *)

\* |sum_j values[j] * (cos(2 PI f j) + sin(2 PI f j))| / values.length for
\* f = num/den (the sum of calculateWindowEnergy and of the power loop of
\* computeSpectralAnalysis).
Correlation(values, num, den) ==
    Abs(SumSeq([j \in 1..Len(values) |->
                  Unscale(values[j] * CosPlusSin(num * (j - 1), den))]))
        \div Len(values)

\* for (let i = 0; i < n / 2; i++): the bins 0 .. ceil(n/2) - 1.
NumBins(n) == (n + 1) \div 2

\* The scan for the dominant frequency without the test frequencies[i] > 0.
RECURSIVE DominantFromAnyBin(_, _, _, _)
DominantFromAnyBin(powers, i, maxPower, dominantIndex) ==
    IF i > Len(powers) THEN dominantIndex
    ELSE IF powers[i] > maxPower
         THEN DominantFromAnyBin(powers, i + 1, powers[i], i - 1)
    ELSE DominantFromAnyBin(powers, i + 1, maxPower, dominantIndex)

\* The scan for the dominant frequency: the first bin of maximal power among
\* the bins of frequency > 0 with power > 0; 0 when there is none.
RECURSIVE DominantFrom(_, _, _, _)
DominantFrom(powers, i, maxPower, dominantIndex) ==
    IF i > Len(powers) THEN dominantIndex
    ELSE IF powers[i] > maxPower /\ i - 1 > 0
         THEN DominantFrom(powers, i + 1, powers[i], i - 1)
    ELSE DominantFrom(powers, i + 1, maxPower, dominantIndex)

\* powers.push(Math.abs(power) / n) for each bin i with i < n / 2
Powers(values) ==
    ArrayOf([b \in 1..NumBins(Len(values)) |-> Correlation(values, b - 1, Len(values))])

\* return { frequencies, powers, dominantFrequency, dominantPeriod }
Spectrum(n, powers, dominantIndex) ==
    [frequencies |-> ArrayOf([b \in 1..NumBins(n) |-> <<b - 1, n>>]),
     powers |-> powers,
     dominantFrequency |-> <<dominantIndex, Max(n, 1)>>,
     dominantPeriod |-> IF dominantIndex > 0 THEN <<n, dominantIndex>> ELSE <<0, 1>>]

SpectrumOf(n, powers) == Spectrum(n, powers, DominantFrom(powers, 1, 0, 0))

ComputeSpectralAnalysis(data) == SpectrumOf(Len(data), Powers(Levels(data)))

\* calculateSpectralThreshold: mean + sqrt(variance); <<>> stands for NaN,
\* which is what 0/0 gives for an empty array of powers.
CalculateSpectralThreshold(powers) ==
    IF powers = <<>> THEN <<>>
    ELSE LET mean == Mean(powers)
             variance == SumSeq([i \in 1..Len(powers) |->
                                   (powers[i] - mean) * (powers[i] - mean)]) \div Len(powers)
         IN  <<mean + Isqrt(variance)>>

\* A faulty comparison that takes x > NaN to be true; NeverRaises rejects it.
ExceedsOrNaN(x, threshold, factor) == threshold = <<>> \/ x > threshold[1] * factor

\* x > threshold * factor, a comparison with NaN being false.
Exceeds(x, threshold, factor) == threshold # <<>> /\ x > threshold[1] * factor

---------------------------------------------------------------------------
(* detectSeiches *)

CalculateWindowEnergy(window, frequency) ==
    Correlation(Levels(window), frequency[1], frequency[2])

\* calculateWindowEnergy(data, frequency) * 0.5, compared as 2 * energy > whole.
ExceedsEnergyThreshold(energy, data, frequency) ==
    2 * energy > CalculateWindowEnergy(data, frequency)

\* for (let i = 0; i < data.length - windowSize; i += Math.floor(windowSize / 2))
RECURSIVE EnergyBurstsFrom(_, _, _, _, _)
EnergyBurstsFrom(data, frequency, burstWindow, i, bursts) ==
    IF i >= Len(data) - burstWindow THEN bursts
    ELSE LET window == Slice(data, i, i + burstWindow)
             energy == CalculateWindowEnergy(window, frequency)
         IN  EnergyBurstsFrom(data, frequency, burstWindow, i + (burstWindow \div 2),
                 IF ExceedsEnergyThreshold(energy, data, frequency)
                 THEN Append(bursts, [start |-> window[1].timestamp,
                                      end |-> window[Len(window)].timestamp])
                 ELSE bursts)

\* period = 1/frequency minutes: Math.floor(period * 2) = floor(2 den / num).
FindEnergyBursts(data, frequency) ==
    LET burstWindow == Max(10, (2 * frequency[2]) \div frequency[1])
    IN  EnergyBurstsFrom(data, frequency, burstWindow, 0, <<>>)

\* freq.toFixed(4): the frequency rounded to four decimals, times 10000.
ToFixed4(frequency) == (2 * 10000 * frequency[1] + frequency[2]) \div (2 * frequency[2])

\* seicheFreqMin = 1/30 <= freq <= seicheFreqMax = 1/5
InSeicheBand(frequency) ==
    /\ 30 * frequency[1] >= frequency[2]
    /\ 5 * frequency[1] <= frequency[2]

\* energyPeaks.forEach((peak, index) => events.push({ id: `seiche-${freq.toFixed(4)}-${index}`, ... }))
SeicheEvents(freq, power, confidence, energyPeaks) ==
    [index \in 1..Len(energyPeaks) |->
        Event(<<"seiche", ToFixed4(freq), index - 1>>, "Seiche",
              energyPeaks[index].start, <<energyPeaks[index].end>>, <<>>,
              confidence, <<>>, <<freq[2], freq[1]>>,
              << <<"frequency", freq>>, <<"spectral_power", power>>,
                 <<"estimated_period", <<freq[2], freq[1]>> >> >>)]

\* The forEach body for bin b, threshold = calculateSpectralThreshold(powers).
SeichesAt(residuals, spectral, threshold, b) ==
    IF InSeicheBand(spectral.frequencies[b]) /\ Exceeds(spectral.powers[b], threshold, 2)
    THEN SeicheEvents(spectral.frequencies[b], spectral.powers[b],
                      IF Exceeds(spectral.powers[b], threshold, 3) THEN "High" ELSE "Medium",
                      FindEnergyBursts(residuals, spectral.frequencies[b]))
    ELSE <<>>

SeichesIn(residuals, spectral, threshold) ==
    Flatten([b \in 1..Len(spectral.frequencies) |->
                SeichesAt(residuals, spectral, threshold, b)])

SeichesOf(residuals, spectral) ==
    SeichesIn(residuals, spectral, CalculateSpectralThreshold(spectral.powers))

DetectSeiches(residuals) == SeichesOf(residuals, ComputeSpectralAnalysis(residuals))

---------------------------------------------------------------------------
(* detectInfragravityWaves *)

\* The scan of the bins with 0 < freq <= igFreqMax = 0.5:
\* acc = [totalIgEnergy, dominantFreq, maxPower].
RECURSIVE InfragravityScan(_, _, _)
InfragravityScan(spectral, b, acc) ==
    IF b > Len(spectral.frequencies) THEN acc
    ELSE LET freq == spectral.frequencies[b]
             power == spectral.powers[b]
         IN  IF 2 * freq[1] <= freq[2] /\ freq[1] > 0
             THEN InfragravityScan(spectral, b + 1,
                      [totalIgEnergy |-> acc.totalIgEnergy + power,
                       dominantFreq |-> IF power > acc.maxPower THEN freq ELSE acc.dominantFreq,
                       maxPower |-> IF power > acc.maxPower THEN power ELSE acc.maxPower])
             ELSE InfragravityScan(spectral, b + 1, acc)

\* The push of detectInfragravityWaves with the confidence High whenever an
\* event is emitted.
InfragravityEmitAlwaysHigh(residuals, band, threshold) ==
    [threw |-> Exceeds(band.totalIgEnergy, threshold, 1) /\ residuals = <<>>,
     events |->
        IF Exceeds(band.totalIgEnergy, threshold, 1) /\ residuals # <<>>
        THEN <<Event(<<"infragravity-waves">>, "Infragravity", residuals[1].timestamp,
                     <<residuals[Len(residuals)].timestamp>>, <<>>,
                     "High",
                     <<>>, <<band.dominantFreq[2], band.dominantFreq[1]>>,
                     << <<"total_energy", band.totalIgEnergy>>,
                        <<"dominant_frequency", band.dominantFreq>>,
                        <<"band_max_freq", <<1, 2>> >> >>)>>
        ELSE <<>>]

\* After the scan: if (totalIgEnergy > threshold) events.push({...
\* startTime: residuals[0].timestamp ...}).  The events returned, and whether
\* the push throws instead: residuals[0].timestamp on an empty array reads a
\* property of undefined, a TypeError that runFullAnalysis does not catch.
InfragravityEmit(residuals, band, threshold) ==
    [threw |-> Exceeds(band.totalIgEnergy, threshold, 1) /\ residuals = <<>>,
     events |->
        IF Exceeds(band.totalIgEnergy, threshold, 1) /\ residuals # <<>>
        THEN <<Event(<<"infragravity-waves">>, "Infragravity", residuals[1].timestamp,
                     <<residuals[Len(residuals)].timestamp>>, <<>>,
                     IF Exceeds(band.totalIgEnergy, threshold, 2) THEN "High" ELSE "Medium",
                     <<>>, <<band.dominantFreq[2], band.dominantFreq[1]>>,
                     << <<"total_energy", band.totalIgEnergy>>,
                        <<"dominant_frequency", band.dominantFreq>>,
                        <<"band_max_freq", <<1, 2>> >> >>)>>
        ELSE <<>>]

InfragravityIn(residuals, spectral) ==
    InfragravityEmit(residuals,
                     InfragravityScan(spectral, 1,
                         [totalIgEnergy |-> 0, dominantFreq |-> <<0, 1>>, maxPower |-> 0]),
                     CalculateSpectralThreshold(spectral.powers))

\* The whole of detectInfragravityWaves.
InfragravityOutcome(residuals) ==
    InfragravityIn(residuals, ComputeSpectralAnalysis(residuals))

DetectInfragravityWaves(residuals) == InfragravityOutcome(residuals).events

---------------------------------------------------------------------------
(* detectAliasedActivity *)

Variance(window) ==
    LET mean == Mean(window)
    IN  SumSeq([i \in 1..Len(window) |-> (window[i] - mean) * (window[i] - mean)])
            \div Len(window)

\* for (let i = 0; i < data.length - windowSize; i++)
CalculateMovingVariance(data, movingWindow) ==
    ArrayOf([i \in 1..(Len(data) - movingWindow) |->
        Variance(Levels(Slice(data, i - 1, i - 1 + movingWindow)))])

\* mean + 2 * std
CalculateVarianceThreshold(variance) == Mean(variance) + 2 * Isqrt(Variance(variance))

\* frequencies.findIndex(f => f >= nyquistFreq * 0.9), as a position; 0 is the
\* code's -1.  f >= 0.45 is 20 * num >= 9 * den.
RECURSIVE FindNyquistFrom(_, _)
FindNyquistFrom(frequencies, b) ==
    IF b > Len(frequencies) THEN 0
    ELSE IF 20 * frequencies[b][1] >= 9 * frequencies[b][2] THEN b
    ELSE FindNyquistFrom(frequencies, b + 1)

NyquistIndex(spectral) == FindNyquistFrom(spectral.frequencies, 1)

\* nyquistPower > meanPower * 3, meanPower = sum / length kept exact.
NyquistSuspicious(spectral) ==
    /\ NyquistIndex(spectral) # 0
    /\ spectral.powers[NyquistIndex(spectral)] * Len(spectral.powers)
           > 3 * SumSeq(spectral.powers)

\* variance.map((v, i) => v > varianceThreshold ? i : -1).filter(i => i >= 0),
\* as positions.
HighVarianceIndexes(variance) ==
    SelectSeq([i \in 1..Len(variance) |-> i],
              LAMBDA i : variance[i] > CalculateVarianceThreshold(variance))

\* The events of detectAliasedActivity created with confidence Medium.
AliasedEventsMedium(residuals, variance, spectral, highVarianceIndexes, nyquistIndex) ==
    [index \in 1..Len(highVarianceIndexes) |->
        Event(<<"aliased", index - 1>>, "Aliased Activity",
              residuals[highVarianceIndexes[index]].timestamp,
              <<residuals[Min(highVarianceIndexes[index] - 1 + 10,
                              Len(residuals) - 1) + 1].timestamp>>,
              <<>>, "Medium", <<>>, <<>>,
              << <<"variance", variance[highVarianceIndexes[index]]>>,
                 <<"nyquist_power", spectral.powers[nyquistIndex]>>,
                 <<"mean_power", Mean(spectral.powers)>>,
                 <<"power_ratio", <<spectral.powers[nyquistIndex],
                                    Mean(spectral.powers)>> >> >>)]

\* highVarianceIndexes.forEach((item, index) => events.push({ id: `aliased-${index}`, ... }))
AliasedEvents(residuals, variance, spectral, highVarianceIndexes, nyquistIndex) ==
    [index \in 1..Len(highVarianceIndexes) |->
        Event(<<"aliased", index - 1>>, "Aliased Activity",
              residuals[highVarianceIndexes[index]].timestamp,
              <<residuals[Min(highVarianceIndexes[index] - 1 + 10,
                              Len(residuals) - 1) + 1].timestamp>>,
              <<>>, "Low", <<>>, <<>>,
              << <<"variance", variance[highVarianceIndexes[index]]>>,
                 <<"nyquist_power", spectral.powers[nyquistIndex]>>,
                 <<"mean_power", Mean(spectral.powers)>>,
                 <<"power_ratio", <<spectral.powers[nyquistIndex],
                                    Mean(spectral.powers)>> >> >>)]

AliasedIn(residuals, variance, spectral) ==
    IF NyquistSuspicious(spectral)
    THEN AliasedEvents(residuals, variance, spectral, HighVarianceIndexes(variance),
                       NyquistIndex(spectral))
    ELSE <<>>

DetectAliasedActivity(residuals) ==
    AliasedIn(residuals, CalculateMovingVariance(residuals, 10),
              ComputeSpectralAnalysis(residuals))

---------------------------------------------------------------------------
(* runFullAnalysis *)

\* const confidenceLevels = { 'Low': 0, 'Medium': 1, 'High': 2 }
confidenceLevels == [Low |-> 0, Medium |-> 1, High |-> 2]

\* A faulty filter that keeps only the events above the threshold;
\* EventsInDetectionOrder rejects it.
FilterAboveThreshold(evs, cfg) ==
    SelectSeq(evs, LAMBDA event :
        confidenceLevels[event.confidence] > confidenceLevels[cfg.confidenceThreshold])

\* A faulty filter that keeps only the events at the threshold;
\* SupersetOfNextHigher rejects it.
FilterAtThreshold(evs, cfg) ==
    SelectSeq(evs, LAMBDA event :
        confidenceLevels[event.confidence] = confidenceLevels[cfg.confidenceThreshold])

\* events.filter(event => confidenceLevels[event.confidence] >=
\*                        confidenceLevels[this.config.confidenceThreshold])
FilterByConfidence(evs, cfg) ==
    SelectSeq(evs, LAMBDA event :
        confidenceLevels[event.confidence] >= confidenceLevels[cfg.confidenceThreshold])

\* The seven events.push(...) calls, in the order of the code.
DetectEvents(gapFilledData, tidalComponent, residuals, cfg) ==
    DetectTidalPhases(gapFilledData, tidalComponent)
    \o DetectStormSurges(residuals)
    \o DetectSeiches(residuals)
    \o DetectInfragravityWaves(residuals)
    \o DetectDataArtifacts(gapFilledData)
    \o DetectExtremeLevels(gapFilledData, cfg)
    \o DetectAliasedActivity(residuals)

\* Steps 4 to 6 of runFullAnalysis and the processedData it returns.
ProcessedData(gapFilledData, tidalComponent) ==
    [original |-> gapFilledData,
     detrended |-> DetrendData(gapFilledData, tidalComponent),
     residuals |-> CalculateResiduals(gapFilledData, tidalComponent),
     tidal |-> tidalComponent]

\* Steps 1 to 6: filter, smooth, fill gaps, extract the tide, detrend.
Process(gapFilledData, cfg) ==
    ProcessedData(gapFilledData, ExtractTidalComponent(gapFilledData, cfg))

\* const events = this.detectEvents(...); return { processedData, events }.
\* threw = TRUE when a detector throws.
Detect(pd, cfg) ==
    [threw |-> InfragravityOutcome(pd.residuals).threw,
     processedData |-> pd,
     events |-> FilterByConfidence(DetectEvents(pd.original, pd.tidal, pd.residuals, cfg), cfg)]

\* runFullAnalysis on this.data = data, this.config = cfg.
RunFullAnalysis(data, cfg) ==
    Detect(Process(FillGaps(SmoothData(FilterDataByTimeRange(data, cfg))), cfg), cfg)

---------------------------------------------------------------------------
(* The engine and its caller.                                              *)

\* Bound of the model: the longest sample array a caller passes.
MaxLen == 4

\* The <<timestamp, seaLevel>> rows a file may hold: two samples a minute
\* apart, then, after a gap of three minutes, two samples with one timestamp.
Rows == {<<11160, 1000>>, <<11220, 1700>>, <<11400, 1000>>, <<11400, 1700>>}

\* A caller's array: the rows in any order, repeats allowed; originalIndex is
\* the row number (FileUpload.tsx).
Arrays(rows, maxLen) ==
    UNION {{[i \in 1..n |-> Point(r[i][1], r[i][2], i - 1)] : r \in [1..n -> rows]} :
              n \in 0..maxLen}

Thresholds == {"Low", "Medium", "High"}

Configs ==
    [tideRemovalMethod : {"harmonic", "lowpass"},
     extremeThreshold : {300},
     confidenceThreshold : Thresholds,
     startTime : {<<>>, <<11460>>},
     endTime : {<<>>, <<11220>>}]

NoData == [original |-> <<>>, detrended |-> <<>>, residuals |-> <<>>, tidal |-> <<>>]

Init ==
    /\ fileData \in Arrays(Rows, MaxLen)
    /\ config \in Configs
    /\ engine = "none"
    /\ processedData = NoData
    /\ events = <<>>
    /\ fnIn = <<>>
    /\ fnOut = <<>>

\* new PoseidonAnalysisEngine(fileData.data, config): data.sort sorts the
\* caller's array in place and this.data is that same array.
NewEngine ==
    /\ engine = "none"
    /\ fileData' = SortByTimestamp(fileData)
    /\ engine' = "constructed"
    /\ UNCHANGED <<config, processedData, events, fnIn, fnOut>>

\* await engine.runFullAnalysis(); setProcessedData; setEvents.  When the
\* engine throws, the caller's catch leaves both as they were.
Analyse ==
    /\ engine = "constructed"
    /\ \E results \in {RunFullAnalysis(fileData, config)} :
           IF results.threw
           THEN /\ engine' = "failed"
                /\ UNCHANGED <<processedData, events>>
           ELSE /\ engine' = "done"
                /\ processedData' = results.processedData
                /\ events' = results.events
    /\ UNCHANGED <<fileData, config, fnIn, fnOut>>

Next == NewEngine \/ Analyse

Spec == Init /\ [][Next]_vars

---------------------------------------------------------------------------
(* Function-level specifications: one function of the engine applied to    *)
(* arguments drawn from bounded sets; engine goes from "none" to "done".   *)

\* Bound: the longest series given to fillGaps and filterDataByTimeRange.
MaxSeries == 3

\* Bound: the most samples at or below the surge threshold on either side of
\* a surge run.
MaxPad == 3

Idle ==
    /\ engine = "none"
    /\ fileData = <<>>
    /\ config \in {c \in Configs : c.tideRemovalMethod = "lowpass"
                                   /\ c.confidenceThreshold = "Medium"
                                   /\ c.startTime = <<>> /\ c.endTime = <<>>}
    /\ processedData = NoData
    /\ events = <<>>
    /\ fnOut = <<>>

Returns(value) ==
    /\ engine = "none"
    /\ engine' = "done"
    /\ fnOut' = value
    /\ UNCHANGED <<fileData, config, processedData, events, fnIn>>

\* Time-ordered series of 1..maxLen samples starting at time 0, consecutive
\* timestamps differing by a member of deltas.
RECURSIVE SeriesFrom(_, _, _, _)
SeriesFrom(prefix, deltas, levels, maxLen) ==
    {prefix} \cup
    (IF Len(prefix) >= maxLen THEN {}
     ELSE UNION {SeriesFrom(Append(prefix,
                                   Point(prefix[Len(prefix)].timestamp + d, l, Len(prefix))),
                            deltas, levels, maxLen) : d \in deltas, l \in levels})

TimeOrdered(start, deltas, levels, maxLen) ==
    UNION {SeriesFrom(<<Point(start, l, 0)>>, deltas, levels, maxLen) : l \in levels}

\* fillGaps on a time-ordered series.
GapInputs == TimeOrdered(0, {60, 120, 121, 180, 300}, {1000, 1250, 1500}, MaxSeries)

InitGaps == Idle /\ fnIn \in GapInputs

ApplyFillGaps == Returns(FillGaps(fnIn))

SpecGaps == InitGaps /\ [][ApplyFillGaps]_vars

\* filterDataByTimeRange on a time-ordered series that starts before the
\* epoch, under every combination of bounds.
RangeBounds == {<<>>, <<-60>>, <<0>>, <<60>>}

RangeInputs ==
    {[data |-> d, config |-> [c EXCEPT !.startTime = st, !.endTime = en]] :
        d \in {<<>>} \cup TimeOrdered(-60, {0, 60, 120}, {1000}, MaxSeries),
        c \in {c \in Configs : c.tideRemovalMethod = "lowpass"
                               /\ c.confidenceThreshold = "Medium"
                               /\ c.startTime = <<>> /\ c.endTime = <<>>},
        st \in RangeBounds, en \in RangeBounds}

InitRange == Idle /\ fnIn \in RangeInputs

ApplyFilterDataByTimeRange == Returns(FilterDataByTimeRange(fnIn.data, fnIn.config))

SpecRange == InitRange /\ [][ApplyFilterDataByTimeRange]_vars

\* detectStormSurges on a residual series sampled every minute: before
\* samples at 0, then run samples at level, then after samples at 0.
SurgeSeries(before, run, level, after) ==
    [i \in 1..(before + run + after) |->
        Point((i - 1) * 60, IF i > before /\ i <= before + run THEN level ELSE 0, i - 1)]

SurgeInputs ==
    {SurgeSeries(b, r, l, a) :
        b \in 0..MaxPad, r \in {59, 60, 90}, l \in {200, 310, -200}, a \in 0..MaxPad}

InitSurge == Idle /\ fnIn \in SurgeInputs

ApplyDetectStormSurges == Returns(DetectStormSurges(fnIn))

SpecSurge == InitSurge /\ [][ApplyDetectStormSurges]_vars

---------------------------------------------------------------------------
(* Properties of a finished analysis (specification Spec).                 *)

SeriesNames == {"original", "detrended", "residuals", "tidal"}

\* The series handed to the tide extraction: the caller's (sorted) array
\* filtered to the range, smoothed and gap-filled.
GapFilledInput == FillGaps(SmoothData(FilterDataByTimeRange(fileData, config)))

\* C1: the four series of the decomposition have the same length, the length
\* of the gap-filled series, and at every index the four samples carry the
\* timestamp and the originalIndex of the gap-filled sample at that index.
SeriesAligned ==
    engine = "done" =>
        \A name \in SeriesNames :
            /\ Len(processedData[name]) = Len(GapFilledInput)
            /\ \A i \in 1..Len(GapFilledInput) :
                  /\ processedData[name][i].timestamp = GapFilledInput[i].timestamp
                  /\ processedData[name][i].originalIndex = GapFilledInput[i].originalIndex

\* C1, its case: a finished analysis whose gap filling inserted samples, one
\* of them with a residual that is not zero.
SeriesAlignedWitness ==
    /\ engine = "done"
    /\ fileData # <<>>
    /\ Len(processedData.original) > Len(fileData)
    /\ \E i \in 1..Len(processedData.original) :
          /\ processedData.original[i].originalIndex = -1
          /\ processedData.residuals[i].seaLevel # 0

\* The same samples in another order: the array whose i-th element is
\* data[p[i]], p a permutation of the positions.
Permuted(data, p) == [i \in 1..Len(data) |-> data[p[i]]]

\* The timestamps and levels of a series, originalIndex left aside.
Readings(series) ==
    [i \in 1..Len(series) |-> <<series[i].timestamp, series[i].seaLevel>>]

SetOf(seq) == {seq[i] : i \in 1..Len(seq)}

\* C2: an engine run on any permutation of the caller's array, with the same
\* config, returns the same readings in each of the four series and the same
\* set of events.
PermutationInvariant ==
    engine = "done" =>
        \A p \in Permutations(1..Len(fileData)) :
            \E other \in {RunFullAnalysis(SortByTimestamp(Permuted(fileData, p)), config)} :
                /\ \A name \in SeriesNames :
                      Readings(other.processedData[name]) = Readings(processedData[name])
                /\ SetOf(other.events) = SetOf(events)

\* The ordinal of a confidence: Low = 0, Medium = 1, High = 2.
Ordinal(confidence) ==
    CASE confidence = "Low" -> 0
      [] confidence = "Medium" -> 1
      [] confidence = "High" -> 2

\* The outputs of the seven detectors on the returned decomposition, in the
\* order tidal-phase, storm-surge, seiche, infragravity, data-artifact,
\* extreme-level, aliased-activity.
SevenDetectors ==
    DetectTidalPhases(processedData.original, processedData.tidal)
    \o DetectStormSurges(processedData.residuals)
    \o DetectSeiches(processedData.residuals)
    \o DetectInfragravityWaves(processedData.residuals)
    \o DetectDataArtifacts(processedData.original)
    \o DetectExtremeLevels(processedData.original, config)
    \o DetectAliasedActivity(processedData.residuals)

\* The positions of all whose confidence is at or above the threshold.
KeptPositions(all, threshold) ==
    {i \in 1..Len(all) : Ordinal(all[i].confidence) >= Ordinal(threshold)}

\* evs is all restricted to the kept positions, in the order of all: the
\* k-th element of evs is the k-th kept element of all.
IsRestriction(evs, all, kept) ==
    /\ Len(evs) = Cardinality(kept)
    /\ \A i \in kept : evs[Cardinality({j \in kept : j <= i})] = all[i]

\* C3: the returned events are the detectors' outputs in detector order,
\* restricted to the confidences at or above the configured threshold, the
\* retained events in their relative order.
EventsInDetectionOrder ==
    engine = "done" =>
        \E all \in {SevenDetectors} :
            IsRestriction(events, all, KeptPositions(all, config.confidenceThreshold))

\* C3, its case: a finished analysis that returns events of three types or
\* more, drops one for its confidence, and returns a later event before an
\* earlier one.
EventsInDetectionOrderWitness ==
    /\ engine = "done"
    /\ Len(events) < Len(SevenDetectors)
    /\ Cardinality({events[k].type : k \in 1..Len(events)}) >= 3
    /\ \E k \in 1..(Len(events) - 1) : events[k].startTime > events[k + 1].startTime

NextHigher(threshold) == IF threshold = "Low" THEN "Medium" ELSE "High"

\* The events the same array gives at the next-higher confidence threshold.
EventsAtNextHigher ==
    RunFullAnalysis(fileData,
                    [config EXCEPT !.confidenceThreshold = NextHigher(@)]).events

\* C6: the set of events returned at a threshold below High includes the set
\* returned, for the same array and the same other config fields, at the
\* next-higher threshold.
SupersetOfNextHigher ==
    (engine = "done" /\ config.confidenceThreshold # "High") =>
        SetOf(EventsAtNextHigher) \subseteq SetOf(events)

\* C6, its case: a finished analysis at threshold Medium whose events are
\* those at High and more.
SupersetOfNextHigherWitness ==
    /\ engine = "done"
    /\ config.confidenceThreshold = "Medium"
    /\ EventsAtNextHigher # <<>>
    /\ SetOf(EventsAtNextHigher) # SetOf(events)

\* C7: no two events of one returned list have the same id.
EventIdsDistinct ==
    engine = "done" =>
        \A i, j \in 1..Len(events) : i # j => events[i].id # events[j].id

\* C8: no step of the engine changes the caller's sample array or config.
CallerInputsUnchanged == [][fileData' = fileData /\ config' = config]_vars

---------------------------------------------------------------------------
(* Properties of detectStormSurges (specification SpecSurge).              *)

\* The value of the property called name in an event's properties.
PropertyOf(event, name) ==
    (CHOOSE entry \in SetOf(event.properties) : entry[1] = name)[2]

\* A residual series that is 0.20 m for exactly 90 consecutive one-minute
\* samples and 0 elsewhere, with zero samples before and after the run.
TwentyCentimetresForNinetyMinutes ==
    \E before, after \in 1..MaxPad : fnIn = SurgeSeries(before, 90, 200, after)

\* fnOut is exactly one Storm Surge event of the given confidence, with
\* duration_minutes = 90 and peak_amplitude = 0.20 m.
OneSurgeOfNinetyMinutes(confidence) ==
    /\ Len(fnOut) = 1
    /\ fnOut[1].type = "Storm Surge"
    /\ fnOut[1].confidence = confidence
    /\ PropertyOf(fnOut[1], "duration_minutes") = 90
    /\ PropertyOf(fnOut[1], "peak_amplitude") = 200

\* C4 as stated: for that series detectStormSurges returns exactly one Storm
\* Surge event, of confidence High, duration 90 and peak 0.20.
SurgeOfTwentyCentimetresHigh ==
    (engine = "done" /\ TwentyCentimetresForNinetyMinutes) =>
        OneSurgeOfNinetyMinutes("High")

\* C4 amended: for that series detectStormSurges returns exactly one Storm
\* Surge event, of confidence Medium (0.20 m is not above twice the surge
\* threshold of 0.15 m), duration 90 and peak 0.20.
SurgeOfTwentyCentimetres ==
    (engine = "done" /\ TwentyCentimetresForNinetyMinutes) =>
        OneSurgeOfNinetyMinutes("Medium")

\* C4, its case: detectStormSurges has returned an event for such a series.
SurgeOfTwentyCentimetresWitness ==
    /\ engine = "done"
    /\ TwentyCentimetresForNinetyMinutes
    /\ fnOut # <<>>

---------------------------------------------------------------------------
(* Properties of fillGaps (specification SpecGaps).                        *)

\* The samples the gap rule puts between consecutive samples a and b: none
\* for a delta of at most 120000 ms, else floor(delta / 60000) - 1 samples,
\* the j-th at a.t + j * 60000 with level a.level + (b.level - a.level) * j /
\* (steps + 1) and originalIndex -1.
InsertedBetween(a, b) ==
    IF b.timestamp - a.timestamp <= 120 THEN <<>>
    ELSE [j \in 1..(((b.timestamp - a.timestamp) \div 60) - 1) |->
             [timestamp |-> a.timestamp + j * 60,
              seaLevel |-> a.seaLevel
                           + ((b.seaLevel - a.seaLevel) * j)
                                 \div ((b.timestamp - a.timestamp) \div 60),
              originalIndex |-> -1]]

\* data with the inserted samples after each of its first upTo samples.
RECURSIVE WithInserted(_, _)
WithInserted(data, upTo) ==
    IF upTo = 0 THEN <<>>
    ELSE WithInserted(data, upTo - 1) \o <<data[upTo]>>
         \o (IF upTo < Len(data) THEN InsertedBetween(data[upTo], data[upTo + 1]) ELSE <<>>)

\* C5: fillGaps returns its input with, between every consecutive pair, the
\* samples of the gap rule and nothing else.
GapsFilledAsSpecified ==
    engine = "done" => fnOut = WithInserted(fnIn, Len(fnIn))

\* C5, its case: fillGaps has run on a series with two gaps, the second of
\* five minutes between levels 1.0 and 1.5, and has put 1.1, 1.2, 1.3, 1.4 there.
GapsFilledAsSpecifiedWitness ==
    /\ engine = "done"
    /\ Len(fnIn) = 3
    /\ fnIn[2].timestamp - fnIn[1].timestamp = 180
    /\ fnIn[3].timestamp - fnIn[2].timestamp = 300
    /\ fnIn[2].seaLevel = 1000
    /\ fnIn[3].seaLevel = 1500
    /\ Len(fnOut) = 9
    /\ [j \in 1..4 |-> fnOut[4 + j].seaLevel] = <<1100, 1200, 1300, 1400>>
    /\ \A j \in 1..4 : fnOut[4 + j].originalIndex = -1

---------------------------------------------------------------------------
(* Properties of filterDataByTimeRange (specification SpecRange).          *)

\* start <= t <= end, a missing bound being no bound on that side.
WithinBounds(point, startTime, endTime) ==
    /\ startTime = <<>> \/ point.timestamp >= startTime[1]
    /\ endTime = <<>> \/ point.timestamp <= endTime[1]

\* C10: filterDataByTimeRange returns, in the original order, exactly the
\* samples with start <= t <= end, a missing startTime or endTime being no
\* bound, whatever the timestamps (before the epoch included).
RangeFilterExact ==
    engine = "done" =>
        fnOut = SelectSeq(fnIn.data,
                          LAMBDA point : WithinBounds(point, fnIn.config.startTime,
                                                      fnIn.config.endTime))

---------------------------------------------------------------------------
(* The decomposition of a finished analysis (specification Spec).          *)

\* C11: at every index of the decomposition the detrended level and the
\* residual level both equal the original level minus the tidal level, so
\* the two series agree element by element and residual plus tidal gives
\* back the gap-filled original.
DecompositionExact ==
    engine = "done" =>
        \A i \in 1..Len(processedData.original) :
            /\ processedData.detrended[i].seaLevel
                   = processedData.original[i].seaLevel - processedData.tidal[i].seaLevel
            /\ processedData.residuals[i].seaLevel = processedData.detrended[i].seaLevel
            /\ processedData.residuals[i].seaLevel + processedData.tidal[i].seaLevel
                   = processedData.original[i].seaLevel

\* C11, its case: a finished analysis with a sample whose tidal level and
\* residual are both other than zero.
DecompositionExactWitness ==
    /\ engine = "done"
    /\ \E i \in 1..Len(processedData.original) :
          /\ processedData.tidal[i].seaLevel # 0
          /\ processedData.residuals[i].seaLevel # 0
          /\ processedData.detrended[i].seaLevel # processedData.original[i].seaLevel

---------------------------------------------------------------------------
(* detectExtremeLevels on its own (specification SpecExtreme).             *)

\* extremeThreshold values: the application's default 0.3 m, and one larger
\* than every deviation, which switches the threshold branch off.
ExtremeThresholds == {300, 100000}

\* A gap-filled series of up to MaxSeries samples, timestamps repeated or a
\* minute apart, and a config.
ExtremeInputs ==
    {[data |-> d, config |-> [c EXCEPT !.extremeThreshold = th]] :
        d \in {<<>>} \cup TimeOrdered(0, {0, 60}, {1000, 1100, 1700, 2400}, MaxSeries),
        c \in {c \in Configs : c.tideRemovalMethod = "lowpass"
                               /\ c.confidenceThreshold = "Medium"
                               /\ c.startTime = <<>> /\ c.endTime = <<>>},
        th \in ExtremeThresholds}

InitExtreme == Idle /\ fnIn \in ExtremeInputs

ApplyDetectExtremeLevels == Returns(DetectExtremeLevels(fnIn.data, fnIn.config))

SpecExtreme == InitExtreme /\ [][ApplyDetectExtremeLevels]_vars

\* The element at 0-based position floor(n * percent / 100) of the levels in
\* ascending order.
PercentileBound(data, percent) ==
    SortNum(Levels(data))[((Len(data) * percent) \div 100) + 1]

\* The indexes of the samples the stated rule calls extreme.
ExtremeIndexes(data, threshold) ==
    {i \in 1..Len(data) :
        \/ data[i].seaLevel <= PercentileBound(data, 1)
        \/ data[i].seaLevel >= PercentileBound(data, 99)
        \/ Abs(data[i].seaLevel - Mean(Levels(data))) > threshold}

\* <<timestamp, level>> of the samples of data at the indexes in picked, in
\* series order.
PickedSamples(data, picked) ==
    LET kept == SelectSeq([i \in 1..Len(data) |-> i], LAMBDA i : i \in picked)
    IN  [k \in 1..Len(kept) |-> <<data[kept[k]].timestamp, data[kept[k]].seaLevel>>]

\* <<startTime, level>> of each event, in order.
EventSamples(evs) ==
    [k \in 1..Len(evs) |-> <<evs[k].startTime, PropertyOf(evs[k], "level")>>]

\* C12: detectExtremeLevels returns one Extreme Level event for each sample
\* at or below p1, at or above p99, or further from the mean than
\* config.extremeThreshold, in series order, and nothing else; with a
\* threshold above every deviation the flagged samples are exactly those at
\* or beyond the two percentile bounds.
ExtremesFlaggedExactly ==
    engine = "done" =>
        /\ \A k \in 1..Len(fnOut) : fnOut[k].type = "Extreme Level"
        /\ ArrayOf(EventSamples(fnOut))
              = ArrayOf(PickedSamples(fnIn.data,
                                      ExtremeIndexes(fnIn.data, fnIn.config.extremeThreshold)))
        /\ fnIn.config.extremeThreshold = 100000 =>
              ArrayOf(EventSamples(fnOut))
                 = ArrayOf(PickedSamples(fnIn.data,
                              {i \in 1..Len(fnIn.data) :
                                  \/ fnIn.data[i].seaLevel <= PercentileBound(fnIn.data, 1)
                                  \/ fnIn.data[i].seaLevel >= PercentileBound(fnIn.data, 99)}))

\* C12, its case: a series with a sample strictly between the percentile
\* bounds that is flagged for its deviation from the mean alone, next to
\* samples flagged at the bounds.
ExtremesFlaggedExactlyWitness ==
    /\ engine = "done"
    /\ fnIn.config.extremeThreshold = 300
    /\ Len(fnIn.data) = 3
    /\ Len(fnOut) = 3
    /\ \E k \in 1..Len(fnOut) : PropertyOf(fnOut[k], "percentile") = "threshold"

---------------------------------------------------------------------------
(* smoothData on its own (specification SpecSmooth).                       *)

\* Bound: the longest series handed to smoothData.
MaxSmooth == 5

\* The levels a sample of the series may have.
SmoothLevels == {1000, 1010, 1100, 1500, 1700, 2400}

\* The series of n samples a minute apart with the levels l[1] .. l[n].
SmoothSeries(n, l) == ArrayOf([i \in 1..n |-> Point((i - 1) * 60, l[i], i - 1)])

\* Series of up to MaxSmooth samples, every choice of levels.  fnIn is the
\* argument as it was at the call, fileData the caller's array object that
\* was passed.
InitSmooth ==
    /\ \E n \in 0..MaxSmooth : \E l \in [1..n -> SmoothLevels] : fnIn = SmoothSeries(n, l)
    /\ fileData = fnIn
    /\ config \in {c \in Configs : c.tideRemovalMethod = "lowpass"
                                   /\ c.confidenceThreshold = "Medium"
                                   /\ c.startTime = <<>> /\ c.endTime = <<>>}
    /\ engine = "none"
    /\ processedData = NoData
    /\ events = <<>>
    /\ fnOut = <<>>

ApplySmoothData ==
    /\ engine = "none"
    /\ engine' = "done"
    /\ fnOut' = SmoothData(fileData)
    /\ fileData' = SmoothDataArgument(fileData)
    /\ UNCHANGED <<config, processedData, events, fnIn>>

SpecSmooth == InitSmooth /\ [][ApplySmoothData]_vars

StrictlyMonotonic(data) ==
    \/ \A i \in 1..(Len(data) - 1) : data[i].seaLevel < data[i + 1].seaLevel
    \/ \A i \in 1..(Len(data) - 1) : data[i].seaLevel > data[i + 1].seaLevel

\* C13: on a strictly monotonic series of n >= 5 samples smoothData leaves
\* the level unchanged at every index 2 <= i <= n-3 (positions 3 to n-2).
MonotonicInteriorKept ==
    (engine = "done" /\ Len(fnIn) >= 5 /\ StrictlyMonotonic(fnIn)) =>
        \A i \in 3..(Len(fnIn) - 2) : fnOut[i].seaLevel = fnIn[i].seaLevel

\* C13, its case: a strictly monotonic series of five samples, smoothed,
\* whose first sample (a clipped window) did change.
MonotonicInteriorKeptWitness ==
    /\ engine = "done"
    /\ Len(fnIn) >= 5
    /\ StrictlyMonotonic(fnIn)
    /\ fnOut[3].seaLevel = fnIn[3].seaLevel
    /\ fnOut[1].seaLevel # fnIn[1].seaLevel

\* The positions of the window of the sample at position i: the code's
\* indexes max(0, i-2) .. min(n-1, i+2).
WindowPositions(n, i) == {j \in 1..n : j >= i - 2 /\ j <= i + 2}

\* v is the element at 0-based position k of the levels at the positions in
\* window when they are put in ascending order.
IsAtSortedPosition(data, window, k, v) ==
    /\ \E j \in window : data[j].seaLevel = v
    /\ Cardinality({j \in window : data[j].seaLevel < v}) <= k
    /\ Cardinality({j \in window : data[j].seaLevel <= v}) > k

\* C18: smoothData returns as many samples as it was given; sample i keeps
\* its timestamp and originalIndex and its level is the element at sorted
\* position floor(size/2) of its window's levels; the argument array is as
\* it was before the call.
SmoothedByWindowMedian ==
    engine = "done" =>
        /\ Len(fnOut) = Len(fnIn)
        /\ fileData = fnIn
        /\ \A i \in 1..Len(fnIn) :
              /\ fnOut[i].timestamp = fnIn[i].timestamp
              /\ fnOut[i].originalIndex = fnIn[i].originalIndex
              /\ IsAtSortedPosition(fnIn, WindowPositions(Len(fnIn), i),
                                    Cardinality(WindowPositions(Len(fnIn), i)) \div 2,
                                    fnOut[i].seaLevel)

\* C18, its case: a series of four samples, so that a clipped window of even
\* size occurs, whose two middle levels differ and whose smoothing changed a
\* level.
SmoothedByWindowMedianWitness ==
    /\ engine = "done"
    /\ Len(fnIn) = 4
    /\ fnIn[1].seaLevel < fnIn[2].seaLevel
    /\ fnIn[2].seaLevel < fnIn[3].seaLevel
    /\ fnIn[3].seaLevel < fnIn[4].seaLevel
    /\ fnOut[2].seaLevel = fnIn[3].seaLevel
    /\ fnOut[1].seaLevel # fnIn[1].seaLevel

---------------------------------------------------------------------------
(* estimateAmplitude on a synthetic tide (specification SpecAmplitude).    *)

\* Bound: the most samples of a synthetic series.
MaxSamples == 12

\* level = 2.0 + 0.5 * cos(omega * t), omega = 2*PI/period, at time t.
SyntheticLevel(t, period) == 2000 + Unscale(500 * Cos(t, period))

\* n samples an hour apart from time start, following one constituent.
SyntheticSeries(start, n, period) ==
    [values |-> ArrayOf([i \in 1..n |-> SyntheticLevel(start + (i - 1) * 3600, period)]),
     times  |-> ArrayOf([i \in 1..n |-> start + (i - 1) * 3600]),
     period |-> period]

InitAmplitude ==
    /\ Idle
    /\ \E p \in 1..Len(periods), n \in 1..MaxSamples, start \in {0, 10800, 21600} :
          fnIn = SyntheticSeries(start, n, periods[p])

ApplyEstimateAmplitude == Returns(EstimateAmplitude(fnIn.values, fnIn.times, fnIn.period))

SpecAmplitude == InitAmplitude /\ [][ApplyEstimateAmplitude]_vars

\* C14: on a series 2.0 + 0.5 * cos(omega * t), omega one of the four tidal
\* angular frequencies, estimateAmplitude for that constituent is within 10%
\* of 0.5 (between 0.45 and 0.55).
AmplitudeWithinTenPercent ==
    engine = "done" => (fnOut >= 450 /\ fnOut <= 550)

---------------------------------------------------------------------------
(* Runs of a series, for the run detectors.                                *)

\* The <<first, last>> positions of the maximal runs of consecutive
\* positions of 1..n that satisfy In.
MaximalRuns(n, In(_)) ==
    LET starts == {s \in 1..n : In(s) /\ (s = 1 \/ ~In(s - 1))}
        ends   == {e \in 1..n : In(e) /\ (e = n \/ ~In(e + 1))}
    IN  {<<s, CHOOSE e \in ends : e >= s /\ \A x \in ends : x >= s => e <= x>> : s \in starts}

\* The maximal runs of residual samples with |level| above the surge
\* threshold.
SurgeRuns(residuals) ==
    MaximalRuns(Len(residuals), LAMBDA i : Abs(residuals[i].seaLevel) > surgeThreshold)

\* ev spans the run and peaks at a sample of the run of greatest |level|.
SpansSurgeRun(ev, residuals, run) ==
    /\ ev.type = "Storm Surge"
    /\ ev.startTime = residuals[run[1]].timestamp
    /\ ev.endTime = <<residuals[run[2]].timestamp>>
    /\ \E p \in run[1]..run[2] :
          /\ ev.peak = <<residuals[p].timestamp>>
          /\ \A q \in run[1]..run[2] :
                Abs(residuals[q].seaLevel) <= Abs(residuals[p].seaLevel)
    /\ ev.startTime <= ev.peak[1] /\ ev.peak[1] <= ev.endTime[1]

\* C15: detectStormSurges returns exactly one Storm Surge event for every
\* maximal run of at least 60 samples above the surge threshold, whether a
\* sample at or below the threshold or the end of the series ends the run,
\* spanning the run and peaking at its greatest |level|; shorter runs give
\* no event.
SurgePerSustainedRun ==
    engine = "done" =>
        \E long \in {{run \in SurgeRuns(fnIn) : run[2] - run[1] + 1 >= sustainedDuration}} :
            /\ Len(fnOut) = Cardinality(long)
            /\ \A run \in long :
                  \E k \in 1..Len(fnOut) : SpansSurgeRun(fnOut[k], fnIn, run)

---------------------------------------------------------------------------
(* detectTidalPhases on its own (specification SpecTide).                  *)

\* Bound: the longest tidal series handed to detectTidalPhases.
MaxTide == 4

\* Tidal levels whose differences fall on both sides of the slope threshold
\* (20 and 21 mm) and of twice the threshold (40 and 41 mm).
TideLevels == {1000, 1020, 1021, 1041, 1061}

\* The tidal series of n samples a minute apart with the levels l[1] .. l[n].
TideSeries(n, l) == ArrayOf([i \in 1..n |-> Point((i - 1) * 60, l[i], i - 1)])

InitTide ==
    /\ Idle
    /\ \E n \in 0..MaxTide : \E l \in [1..n -> TideLevels] : fnIn = TideSeries(n, l)

\* detectTidalPhases(gapFilledData, tidalComponent) reads only its second
\* argument.
ApplyDetectTidalPhases == Returns(DetectTidalPhases(fnIn, fnIn))

SpecTide == InitTide /\ [][ApplyDetectTidalPhases]_vars

\* The positions in evs of the events of the given type raised at the code's
\* index i (the index is the last part of the id).
RaisedAt(evs, type, i) ==
    {k \in 1..Len(evs) : evs[k].type = type /\ evs[k].id[2] = i}

\* The checks at the code's index i of the tidal series, as stated.
TidalChecksAt(evs, tidal, i) ==
    LET thr == 20
        prevSlope == tidal[i + 1].seaLevel - tidal[i].seaLevel
        nextSlope == tidal[i + 2].seaLevel - tidal[i + 1].seaLevel
        phase   == IF prevSlope > 0 THEN "Rising Tide" ELSE "Falling Tide"
        other   == IF prevSlope > 0 THEN "Falling Tide" ELSE "Rising Tide"
    IN  /\ Cardinality(RaisedAt(evs, "High Tide", i))
              = IF prevSlope > thr /\ nextSlope < -thr THEN 1 ELSE 0
        /\ \A k \in RaisedAt(evs, "High Tide", i) :
              /\ evs[k].confidence = "High"
              /\ evs[k].startTime = tidal[i + 1].timestamp
              /\ k < Len(evs) /\ (k + 1) \in RaisedAt(evs, "Rising Tide", i)
        /\ Cardinality(RaisedAt(evs, "Low Tide", i))
              = IF prevSlope < -thr /\ nextSlope > thr THEN 1 ELSE 0
        /\ \A k \in RaisedAt(evs, "Low Tide", i) :
              /\ evs[k].confidence = "High"
              /\ evs[k].startTime = tidal[i + 1].timestamp
              /\ k < Len(evs) /\ (k + 1) \in RaisedAt(evs, "Falling Tide", i)
        /\ RaisedAt(evs, "High Tide", i) = {} \/ RaisedAt(evs, "Low Tide", i) = {}
        /\ Cardinality(RaisedAt(evs, phase, i)) = IF Abs(prevSlope) > thr THEN 1 ELSE 0
        /\ RaisedAt(evs, other, i) = {}
        /\ \A k \in RaisedAt(evs, phase, i) :
              /\ evs[k].confidence = IF Abs(prevSlope) > 2 * thr THEN "High" ELSE "Medium"
              /\ evs[k].startTime = tidal[i].timestamp
              /\ evs[k].endTime = <<tidal[i + 1].timestamp>>

\* C16: at every interior index of the tidal series detectTidalPhases makes
\* three independent checks: a High-confidence High Tide at the sample iff
\* prevSlope > 0.02 and nextSlope < -0.02, a High-confidence Low Tide iff
\* prevSlope < -0.02 and nextSlope > 0.02, and a Rising or Falling Tide over
\* the samples i-1..i iff |prevSlope| > 0.02 (High iff above 0.04); so a High
\* Tide is directly followed by the Rising Tide of its index, a Low Tide by
\* the Falling Tide, never both a High and a Low Tide at one index, and no
\* event is raised at any other index.
TidalChecksIndependent ==
    engine = "done" =>
        /\ \A i \in 1..(Len(fnIn) - 2) : TidalChecksAt(fnOut, fnIn, i)
        /\ \A k \in 1..Len(fnOut) :
              /\ fnOut[k].type \in {"High Tide", "Low Tide", "Rising Tide", "Falling Tide"}
              /\ fnOut[k].id[2] \in 1..(Len(fnIn) - 2)

\* C16, its case: a series with a peak and then a trough, giving a High Tide
\* with its Rising Tide and a Low Tide with its Falling Tide.
TidalChecksIndependentWitness ==
    /\ engine = "done"
    /\ Len(fnIn) = 4
    /\ Len(fnOut) = 4
    /\ fnOut[1].type = "High Tide" /\ fnOut[2].type = "Rising Tide"
    /\ fnOut[3].type = "Low Tide" /\ fnOut[4].type = "Falling Tide"
    /\ fnOut[4].confidence = "Medium"

---------------------------------------------------------------------------
(* detectDataArtifacts on its own (specification SpecFlatline).            *)

\* A gap-filled series sampled every minute: before samples that jump by
\* 0.1 m each, then run samples that stay at 1.05 m (drift = 0) or move by
\* 1 mm each (drift = 1), then after samples that jump again.
FlatSeries(before, run, drift, after) ==
    [i \in 1..(before + run + after) |->
        Point((i - 1) * 60,
              IF i > before /\ i <= before + run THEN 1050 + drift * (i % 2)
              ELSE 1000 + 100 * (i % 2),
              i - 1)]

InitFlatline ==
    /\ Idle
    /\ \E before \in 0..MaxPad, run \in {29, 30, 31}, drift \in {0, 1}, after \in 0..MaxPad :
          fnIn = FlatSeries(before, run, drift, after)

ApplyDetectDataArtifacts == Returns(DetectDataArtifacts(fnIn))

SpecFlatline == InitFlatline /\ [][ApplyDetectDataArtifacts]_vars

\* The <<first, last>> positions of the maximal runs of samples in which
\* each consecutive delta is at most the flatline threshold: a maximal run
\* of such deltas s..e covers the samples s..e+1.
FlatRuns(data) ==
    {<<run[1], run[2] + 1>> :
        run \in MaximalRuns(Len(data) - 1,
                            LAMBDA j : Abs(data[j + 1].seaLevel - data[j].seaLevel)
                                          <= flatlineThreshold)}

\* ev is a High-confidence Flatline spanning the run and reporting the level
\* of its first sample.
SpansFlatRun(ev, data, run) ==
    /\ ev.type = "Flatline"
    /\ ev.confidence = "High"
    /\ ev.startTime = data[run[1]].timestamp
    /\ ev.endTime = <<data[run[2]].timestamp>>
    /\ PropertyOf(ev, "constant_value") = data[run[1]].seaLevel

\* C17: detectDataArtifacts returns exactly one High-confidence Flatline
\* event for every maximal run of at least 30 samples whose consecutive
\* deltas are at most 0.001 m, whether a larger delta or the end of the
\* series ends the run, spanning the run and reporting the level of its
\* first sample; shorter runs give no Flatline event.
FlatlinePerRun ==
    engine = "done" =>
        \E long \in {{run \in FlatRuns(fnIn) : run[2] - run[1] + 1 >= minFlatlineDuration}} :
            /\ Cardinality({k \in 1..Len(fnOut) : fnOut[k].type = "Flatline"})
                  = Cardinality(long)
            /\ \A run \in long :
                  \E k \in 1..Len(fnOut) : SpansFlatRun(fnOut[k], fnIn, run)

---------------------------------------------------------------------------
(* Order and spacing of the gap-filled series (specification SpecGaps).    *)

\* C19: the output of fillGaps on a time-ordered series is non-decreasing
\* by timestamp, is at least as long as the input, and its samples with
\* originalIndex other than -1 are the input samples, unchanged and in the
\* input order.
GapsKeepInputInOrder ==
    engine = "done" =>
        /\ \A i \in 1..(Len(fnOut) - 1) : fnOut[i].timestamp <= fnOut[i + 1].timestamp
        /\ Len(fnOut) >= Len(fnIn)
        /\ SelectSeq(fnOut, LAMBDA point : point.originalIndex # -1) = fnIn

\* C19, its case: fillGaps has filled two gaps of a three-sample series.
GapsKeepInputInOrderWitness ==
    /\ engine = "done"
    /\ Len(fnIn) = 3
    /\ fnIn[2].timestamp - fnIn[1].timestamp > 2 * expectedInterval
    /\ fnIn[3].timestamp - fnIn[2].timestamp > 2 * expectedInterval
    /\ Len(fnOut) >= Len(fnIn) + 4

\* C20: no two consecutive samples of the output of fillGaps on a
\* time-ordered series are more than twice the expected interval apart.
NoGapAboveTwoIntervals ==
    engine = "done" =>
        \A i \in 1..(Len(fnOut) - 1) :
            fnOut[i + 1].timestamp - fnOut[i].timestamp <= 2 * expectedInterval

\* C20, its case: fillGaps has filled a gap that is not a whole number of
\* minutes (121 s) and a gap of five minutes.
NoGapAboveTwoIntervalsWitness ==
    /\ engine = "done"
    /\ \E i \in 1..(Len(fnIn) - 1) : fnIn[i + 1].timestamp - fnIn[i].timestamp = 121
    /\ \E i \in 1..(Len(fnIn) - 1) : fnIn[i + 1].timestamp - fnIn[i].timestamp = 300
    /\ \E i \in 1..(Len(fnOut) - 1) : fnOut[i + 1].timestamp - fnOut[i].timestamp = 61

---------------------------------------------------------------------------
(* The seven detectors run in any order on one decomposition               *)
(* (specification SpecDetectors).                                          *)

DetectorNames ==
    {"detectTidalPhases", "detectStormSurges", "detectSeiches", "detectInfragravityWaves",
     "detectDataArtifacts", "detectExtremeLevels", "detectAliasedActivity"}

\* What detector d returns on the decomposition pd (lines 36-42 give each
\* detector its series).
DetectorEvents(d, pd, cfg) ==
    CASE d = "detectTidalPhases"       -> DetectTidalPhases(pd.original, pd.tidal)
      [] d = "detectStormSurges"       -> DetectStormSurges(pd.residuals)
      [] d = "detectSeiches"           -> DetectSeiches(pd.residuals)
      [] d = "detectInfragravityWaves" -> DetectInfragravityWaves(pd.residuals)
      [] d = "detectDataArtifacts"     -> DetectDataArtifacts(pd.original)
      [] d = "detectExtremeLevels"     -> DetectExtremeLevels(pd.original, cfg)
      [] d = "detectAliasedActivity"   -> DetectAliasedActivity(pd.residuals)

\* The decomposition after detector d has run on it.  The detectors only
\* read their series; detectExtremeLevels is the one that sorts, and it sorts
\* a copy.
DecompositionAfter(d, pd) ==
    IF d = "detectExtremeLevels"
    THEN [pd EXCEPT !.original = ExtremeLevelsArgument(pd.original)]
    ELSE pd

\* fnIn is the decomposition as runFullAnalysis built it, processedData the
\* same objects as the detectors find and leave them, fnOut[d] the result of
\* detector d once it has run (<<>> before).
InitDetectors ==
    /\ config \in {c \in Configs : c.confidenceThreshold = "Low"
                                   /\ c.startTime = <<>> /\ c.endTime = <<>>}
    /\ \E n \in 0..MaxSeries : \E l \in [1..n -> {1000, 1700}] :
          fnIn = Process(ArrayOf([i \in 1..n |-> Point((i - 1) * 60, l[i], i - 1)]), config)
    /\ processedData = fnIn
    /\ fnOut = [d \in DetectorNames |-> <<>>]
    /\ engine = "constructed"
    /\ fileData = <<>>
    /\ events = <<>>

RunDetector(d) ==
    /\ fnOut[d] = <<>>
    /\ fnOut' = [fnOut EXCEPT ![d] = <<DetectorEvents(d, processedData, config)>>]
    /\ processedData' = DecompositionAfter(d, processedData)
    /\ UNCHANGED <<fileData, config, engine, events, fnIn>>

NextDetector == \E d \in DetectorNames : RunDetector(d)

SpecDetectors == InitDetectors /\ [][NextDetector]_vars

\* C21: whichever detectors have run, in whatever order, the decomposition
\* is element for element what it was before any of them ran, and each has
\* returned what it returns on that untouched decomposition.
DetectorsLeaveDecomposition ==
    /\ processedData = fnIn
    /\ \A d \in DetectorNames :
          fnOut[d] # <<>> => fnOut[d][1] = DetectorEvents(d, fnIn, config)

\* C21, its case: all seven detectors have run on a series that is not in
\* ascending level order, and the data-artifact and extreme-level detectors
\* both found events.
DetectorsLeaveDecompositionWitness ==
    /\ \A d \in DetectorNames : fnOut[d] # <<>>
    /\ \E i \in 1..(Len(fnIn.original) - 1) :
          fnIn.original[i].seaLevel > fnIn.original[i + 1].seaLevel
    /\ fnOut["detectDataArtifacts"][1] # <<>>
    /\ fnOut["detectExtremeLevels"][1] # <<>>

---------------------------------------------------------------------------
(* The bin detectAliasedActivity compares (specification SpecNyquist).     *)

\* Bound: the longest residual series handed to detectAliasedActivity.
MaxResiduals == 36

\* n residuals a minute apart that alternate between -a and +a.
AlternatingSeries(n, a) ==
    ArrayOf([i \in 1..n |-> Point((i - 1) * 60, a * (2 * (i % 2) - 1), i - 1)])

InitNyquist ==
    /\ Idle
    /\ \E n \in 0..MaxResiduals, a \in {0, 50, 100, 200} : fnIn = AlternatingSeries(n, a)

\* Lines 513-517: the code's nyquistIndex, -1 when findIndex finds no bin.
ApplyNyquistIndex == Returns(NyquistIndex(ComputeSpectralAnalysis(fnIn)) - 1)

SpecNyquist == InitNyquist /\ [][ApplyNyquistIndex]_vars

\* C22: the bin whose power detectAliasedActivity compares with three times
\* the mean power is the highest-frequency bin of the spectrum, the one
\* nearest 0.5 cycles per minute, for every series length.
NyquistBinIsHighest ==
    (engine = "done" /\ fnOut # -1) => fnOut = NumBins(Len(fnIn)) - 1

---------------------------------------------------------------------------
(* computeSpectralAnalysis as a function (specification SpecSpectrum).     *)

\* Bound: the longest series handed to computeSpectralAnalysis.
MaxSpectrum == 5

SpectrumLevels == {0, 1000, 1300}

SpectrumSeries(n, l) ==
    ArrayOf([i \in 1..n |-> Point((i - 1) * 60, l[i], i - 1)])

InitSpectrum ==
    /\ Idle
    /\ \E n \in 0..MaxSpectrum : \E l \in [1..n -> SpectrumLevels] :
          fnIn = SpectrumSeries(n, l)

ApplyComputeSpectralAnalysis == Returns(ComputeSpectralAnalysis(fnIn))

SpecSpectrum == InitSpectrum /\ [][ApplyComputeSpectralAnalysis]_vars

\* The bins of frequency > 0 whose power is positive.
PositiveBins(spectral) ==
    {b \in 2..Len(spectral.powers) : spectral.powers[b] > 0}

\* frequencies and powers have the same length, bin i has frequency i/N
\* (i * 0.5 / (N/2)) and every frequency lies in [0, 0.5).
BinsUniform(spectral, n) ==
    /\ Len(spectral.frequencies) = Len(spectral.powers)
    /\ \A b \in 1..Len(spectral.frequencies) :
          /\ spectral.frequencies[b] = <<b - 1, n>>
          /\ 2 * (b - 1) < n

\* dominantFrequency is the frequency of a bin of maximal power among the
\* bins of frequency > 0, and it is 0, with dominantPeriod 0, exactly when
\* none of those bins has positive power.
DominantIsMaximal(spectral, n) ==
    IF PositiveBins(spectral) = {}
    THEN spectral.dominantFrequency[1] = 0 /\ spectral.dominantPeriod[1] = 0
    ELSE \E b \in PositiveBins(spectral) :
            /\ spectral.dominantFrequency = spectral.frequencies[b]
            /\ spectral.dominantPeriod = <<n, b - 1>>
            /\ \A c \in 2..Len(spectral.powers) :
                  spectral.powers[c] <= spectral.powers[b]

\* C23 as stated: for a series of length N the spectrum has N/2 bins, bin i
\* at frequency i*0.5/(N/2) in [0, 0.5), and dominantFrequency is the
\* frequency of the maximum-power bin among the bins of frequency > 0, being
\* 0 with dominantPeriod 0 only when no such bin has positive power.
SpectrumHasHalfNBins ==
    engine = "done" =>
        /\ 2 * Len(fnOut.frequencies) = Len(fnIn)
        /\ BinsUniform(fnOut, Len(fnIn))
        /\ DominantIsMaximal(fnOut, Len(fnIn))

\* C23 amended: the same with ceil(N/2) bins, which is N/2 only for even N.
SpectrumHasCeilHalfNBins ==
    engine = "done" =>
        /\ Len(fnOut.frequencies) = (Len(fnIn) + 1) \div 2
        /\ BinsUniform(fnOut, Len(fnIn))
        /\ DominantIsMaximal(fnOut, Len(fnIn))

\* A series of odd length whose bin 0 holds the most power, and whose
\* dominant frequency is nevertheless that of a later bin.
SpectrumHasCeilHalfNBinsWitness ==
    /\ engine = "done"
    /\ Len(fnIn) % 2 = 1
    /\ fnOut.dominantFrequency[1] > 0
    /\ \A b \in 2..Len(fnOut.powers) : fnOut.powers[b] < fnOut.powers[1]

---------------------------------------------------------------------------
(* detectSeiches as a function (specification SpecSeiche).                 *)

\* Bound: the longest residual series handed to detectSeiches.
MaxSeiche == 25

\* n residuals a minute apart: an oscillation with k cycles in n minutes, of
\* amplitude a over the samples from..to-1 and a third of it elsewhere.
SeicheSeries(n, k, a, from, to) ==
    ArrayOf([i \in 1..n |->
       Point((i - 1) * 60,
             Unscale((IF from <= i - 1 /\ i - 1 < to THEN a ELSE a \div 3)
                        * Cos(k * (i - 1), n)),
             i - 1)])

InitSeiche ==
    /\ Idle
    /\ \E n \in 16..MaxSeiche, k \in 1..5, a \in {100, 200}, half \in 0..2 :
          fnIn = SeicheSeries(n, k, a, IF half = 2 THEN n \div 2 ELSE 0,
                                       IF half = 1 THEN n \div 2 ELSE n)

ApplyDetectSeiches == Returns(DetectSeiches(fnIn))

SpecSeiche == InitSeiche /\ [][ApplyDetectSeiches]_vars

\* Math.max(10, Math.floor(period * 2)) for the period 1/frequency.
SeicheWindow(frequency) == Max(10, (2 * frequency[2]) \div frequency[1])

\* The 0-based starts of the windows of SeicheWindow(frequency) consecutive
\* samples that start at a multiple of half the window and lie wholly inside
\* a series of n samples.
WindowStarts(n, frequency) ==
    {i \in 0..n : /\ i % (SeicheWindow(frequency) \div 2) = 0
                  /\ i + SeicheWindow(frequency) <= n}

\* The event spans the window of the residuals that starts at sample i.
SpansWindow(event, residuals, frequency, i) ==
    /\ event.startTime = residuals[i + 1].timestamp
    /\ event.endTime = <<residuals[i + SeicheWindow(frequency)].timestamp>>

\* Every Seiche event comes from a bin in [1/30, 1/5] and spans one of the
\* windows of that bin.
SeichesSpanWindows(residuals, seiches) ==
    \A e \in 1..Len(seiches) :
       /\ seiches[e].type = "Seiche"
       /\ InSeicheBand(PropertyOf(seiches[e], "frequency"))
       /\ seiches[e].period = <<PropertyOf(seiches[e], "frequency")[2],
                                PropertyOf(seiches[e], "frequency")[1]>>
       /\ \E i \in WindowStarts(Len(residuals), PropertyOf(seiches[e], "frequency")) :
             SpansWindow(seiches[e], residuals, PropertyOf(seiches[e], "frequency"), i)

\* The events of the bin of the given frequency that span the window at i.
SeichesOfWindow(residuals, seiches, frequency, i) ==
    {e \in 1..Len(seiches) :
        /\ PropertyOf(seiches[e], "frequency") = frequency
        /\ SpansWindow(seiches[e], residuals, frequency, i)}

\* Each window of a reported frequency whose energy exceeds half the energy
\* of the whole series at that frequency has exactly one event.
OneSeichePerWindow(residuals, seiches) ==
    \A e \in 1..Len(seiches) :
       \A i \in WindowStarts(Len(residuals), PropertyOf(seiches[e], "frequency")) :
          \E energy \in {CalculateWindowEnergy(
                            Slice(residuals, i, i + SeicheWindow(PropertyOf(seiches[e], "frequency"))),
                            PropertyOf(seiches[e], "frequency"))} :
             ExceedsEnergyThreshold(energy, residuals, PropertyOf(seiches[e], "frequency"))
                => Cardinality(SeichesOfWindow(residuals, seiches,
                                   PropertyOf(seiches[e], "frequency"), i)) = 1

\* Every Seiche event returned comes from a bin of the band and spans one
\* of that bin's windows.
SeicheEventsSpanWindows ==
    engine = "done" => SeichesSpanWindows(fnIn, fnOut)

\* C24: every Seiche event comes from a bin of frequency in [1/30, 1/5] and
\* spans a window of exactly max(10, floor(2*period)) consecutive residuals
\* that starts at a multiple of floor(window/2) and lies wholly inside the
\* series; one event is emitted per window whose energy exceeds half the
\* energy of the whole series at that frequency.
SeichePerEnergeticWindow ==
    engine = "done" =>
        /\ SeichesSpanWindows(fnIn, fnOut)
        /\ OneSeichePerWindow(fnIn, fnOut)

---------------------------------------------------------------------------
(* detectInfragravityWaves as a function (specification SpecInfragravity). *)

\* Bound: the longest residual series handed to detectInfragravityWaves.
MaxInfragravity == 7

InfragravityLevels == {-100, 0, 100}

InitInfragravity ==
    /\ Idle
    /\ \E n \in 0..MaxInfragravity : \E l \in [1..n -> InfragravityLevels] :
          fnIn = SpectrumSeries(n, l)

ApplyDetectInfragravityWaves == Returns(DetectInfragravityWaves(fnIn))

SpecInfragravity == InitInfragravity /\ [][ApplyDetectInfragravityWaves]_vars

\* The summed power of the bins of frequency > 0.
NonZeroBinPower(powers) == SumSeq([b \in 1..Len(powers) - 1 |-> powers[b + 1]])

\* The confidence the statement gives: High iff the summed power of the
\* non-zero bins exceeds 2 * (mean + stddev) of all bin powers.
InfragravityConfidence(powers) ==
    IF Exceeds(NonZeroBinPower(powers), CalculateSpectralThreshold(powers), 2)
    THEN "High" ELSE "Medium"

\* C25: detectInfragravityWaves emits at most one event; an emitted event
\* starts at the first and ends at the last residual sample, its dominant
\* frequency is strictly positive (its period finite), and its confidence is
\* High iff the summed power of the non-zero bins exceeds
\* 2 * (mean + stddev of all bin powers), else Medium.
InfragravityAtMostOnce ==
    engine = "done" =>
        /\ Len(fnOut) <= 1
        /\ \A e \in 1..Len(fnOut) :
              /\ fnOut[e].type = "Infragravity"
              /\ fnOut[e].startTime = fnIn[1].timestamp
              /\ fnOut[e].endTime = <<fnIn[Len(fnIn)].timestamp>>
              /\ PropertyOf(fnOut[e], "dominant_frequency")[1] > 0
              /\ fnOut[e].period[2] > 0
              /\ fnOut[e].confidence = InfragravityConfidence(Powers(Levels(fnIn)))

\* An Infragravity event of confidence High has been returned for a series
\* of several samples.
InfragravityAtMostOnceWitness ==
    /\ engine = "done"
    /\ Len(fnOut) = 1
    /\ fnOut[1].confidence = "High"
    /\ Len(fnIn) > 1

---------------------------------------------------------------------------
(* WeatherService.lerpAngle (specification SpecLerpAngle).  Directions are *)
(* whole degrees and the ratio is r / MaxRatio, so that the direction      *)
(* returned is kept exactly, in units of 1 / MaxRatio of a degree.         *)

\* Bound: the number of steps the ratio takes from 0 to 1.
MaxRatio == 4

\* The wind directions tried: every 10 degrees of [0, 360).
Directions == {10 * d : d \in 0..35}

\* a % b of JavaScript for b > 0: the remainder has the sign of a.
JsRemainder(a, b) == IF a < 0 THEN -((-a) % b) ELSE a % b

\* const diff = ((end - start + 180) % 360) - 180;
\* return (start + diff * ratio + 360) % 360;   with ratio = r / MaxRatio,
\* the result in units of 1 / MaxRatio of a degree.
LerpAngle(start, end, r) ==
    LET diff == JsRemainder(end - start + 180, 360) - 180
    IN  JsRemainder(MaxRatio * start + diff * r + MaxRatio * 360, MaxRatio * 360)

InitLerpAngle ==
    /\ Idle
    /\ \E start \in Directions, end \in Directions, r \in 0..MaxRatio :
          fnIn = [start |-> start, end |-> end, ratio |-> r]

\* windDirection: this.lerpAngle(before.windDirection, after.windDirection, ratio)
ApplyLerpAngle == Returns(LerpAngle(fnIn.start, fnIn.end, fnIn.ratio))

SpecLerpAngle == InitLerpAngle /\ [][ApplyLerpAngle]_vars

\* The length of the shorter arc between two directions a and b given in
\* the same unit, a full turn being turn units.
ArcBetween(a, b, turn) ==
    Min(Abs(a - b) % turn, turn - (Abs(a - b) % turn))

\* C26: for start and end in [0, 360) and ratio in [0, 1], lerpAngle returns
\* a direction in [0, 360) on the shorter arc between start and end, the
\* ratio of the way from start to end, wrapping through 0/360 whenever that
\* is the shorter way (start 350, end 10, ratio 0.5 gives 0).
LerpAngleOnShorterArc ==
    engine = "done" =>
        /\ 0 <= fnOut /\ fnOut < MaxRatio * 360
        /\ ArcBetween(MaxRatio * fnIn.start, fnOut, MaxRatio * 360)
              = fnIn.ratio * ArcBetween(fnIn.start, fnIn.end, 360)
        /\ ArcBetween(fnOut, MaxRatio * fnIn.end, MaxRatio * 360)
              = (MaxRatio - fnIn.ratio) * ArcBetween(fnIn.start, fnIn.end, 360)

---------------------------------------------------------------------------
(* The analysis of series long enough for detectAliasedActivity to find    *)
(* events (specification SpecAliased).                                     *)

\* Bound: the longest uploaded series of specification SpecAliased.
MaxAliased == 26

\* n one-minute samples: 1.000 m for the first quiet samples, then
\* alternating 0.050 m below and above it.
AliasedSeries(n, quiet) ==
    ArrayOf([i \in 1..n |->
       Point(11160 + (i - 1) * 60,
             1000 + (IF i > quiet THEN 50 * (2 * (i % 2) - 1) ELSE 0),
             i - 1)])

InitAliased ==
    /\ \E n \in 20..MaxAliased, back \in 4..10 : fileData = AliasedSeries(n, n - back)
    /\ config \in {c \in Configs : c.startTime = <<>> /\ c.endTime = <<>>}
    /\ engine = "none"
    /\ processedData = NoData
    /\ events = <<>>
    /\ fnIn = <<>>
    /\ fnOut = <<>>

SpecAliased == InitAliased /\ [][Next]_vars

\* The Aliased Activity events among evs.
AliasedAmong(evs) == SelectSeq(evs, LAMBDA event : event.type = "Aliased Activity")

\* C27: every Aliased Activity event has confidence Low, so with the
\* confidence threshold Medium or High the events returned by
\* runFullAnalysis contain no Aliased Activity event.
AliasedOnlyAtLow ==
    engine = "done" =>
        \A e \in 1..Len(events) :
           events[e].type = "Aliased Activity" =>
              /\ events[e].confidence = "Low"
              /\ config.confidenceThreshold = "Low"

\* With the threshold Medium, detectAliasedActivity found events in the
\* residuals and none of them was returned.
AliasedOnlyAtLowWitness ==
    /\ engine = "done"
    /\ config.confidenceThreshold = "Medium"
    /\ DetectAliasedActivity(processedData.residuals) # <<>>
    /\ AliasedAmong(events) = <<>>

---------------------------------------------------------------------------
(* Extreme Level events of the whole analysis (specification SpecLevels).  *)

\* Bound: the longest uploaded series of specification SpecLevels.
MaxLevels == 5

\* n samples a minute apart with the levels l, without time gaps.
LevelSeries(n, l) ==
    ArrayOf([i \in 1..n |-> Point(11160 + (i - 1) * 60, l[i], i - 1)])

InitLevels ==
    /\ \E n \in 0..MaxLevels : \E l \in [1..n -> {1000, 1700}] :
          fileData = LevelSeries(n, l)
    /\ config \in Configs
    /\ engine = "none"
    /\ processedData = NoData
    /\ events = <<>>
    /\ fnIn = <<>>
    /\ fnOut = <<>>

SpecLevels == InitLevels /\ [][Next]_vars

\* The Extreme Level events among evs.
ExtremeAmong(evs) == SelectSeq(evs, LAMBDA event : event.type = "Extreme Level")

\* All samples of the series have the same level.
AllEqual(data) == \A i, j \in 1..Len(data) : data[i].seaLevel = data[j].seaLevel

\* C28: for every non-empty analysed series detectExtremeLevels emits at
\* least one event, since a sample of minimal level is at or below p1; hence
\* with the confidence threshold Low or Medium the events returned are never
\* empty, and for an all-equal series every sample is reported as an Extreme
\* Level event.
ExtremeAlwaysReported ==
    (engine = "done" /\ processedData.original # <<>>) =>
        /\ DetectExtremeLevels(processedData.original, config) # <<>>
        /\ AllEqual(processedData.original) =>
              Len(DetectExtremeLevels(processedData.original, config))
                 = Len(processedData.original)
        /\ config.confidenceThreshold \in {"Low", "Medium"} =>
              /\ ExtremeAmong(events) # <<>>
              /\ AllEqual(processedData.original) =>
                    [e \in 1..Len(ExtremeAmong(events)) |-> ExtremeAmong(events)[e].startTime]
                       = [i \in 1..Len(processedData.original) |->
                             processedData.original[i].timestamp]

\* An all-equal analysed series of several samples, analysed with the
\* threshold Medium, every sample of which was returned as an Extreme Level.
ExtremeAlwaysReportedWitness ==
    /\ engine = "done"
    /\ config.confidenceThreshold = "Medium"
    /\ Len(processedData.original) >= 3
    /\ AllEqual(processedData.original)
    /\ Len(ExtremeAmong(events)) = Len(processedData.original)

---------------------------------------------------------------------------
(* The analysis of a series with one outlying sample (specification        *)
(* SpecOutlier).                                                           *)

\* Bound: the longest uploaded series of specification SpecOutlier.
MaxOutlier == 7

\* The levels of the outlying sample: 1 m below, 0.6 m above and 4 m above
\* the others.
OutlierLevels == {0, 1600, 5000}

\* n samples a minute apart, all at 1.000 m except the sample at position at.
OutlierSeries(n, at, level) ==
    ArrayOf([i \in 1..n |->
       Point(11160 + (i - 1) * 60, IF i = at THEN level ELSE 1000, i - 1)])

InitOutlier ==
    /\ \E n \in 1..MaxOutlier, at \in 1..MaxOutlier, level \in OutlierLevels :
          at <= n /\ fileData = OutlierSeries(n, at, level)
    /\ config \in Configs
    /\ engine = "none"
    /\ processedData = NoData
    /\ events = <<>>
    /\ fnIn = <<>>
    /\ fnOut = <<>>

SpecOutlier == InitOutlier /\ [][Next]_vars

\* C29: for an input without time gaps whose levels are all equal except
\* for one sample, at any index and of any magnitude, the smoothed and
\* gap-filled series is constant and runFullAnalysis returns no Spike event.
SingleOutlierSmoothedAway ==
    engine = "done" =>
        /\ AllEqual(processedData.original)
        /\ \A e \in 1..Len(events) : events[e].type # "Spike"

\* A series of at least five samples with the third one 4 m above the
\* others has been analysed whole.
SingleOutlierSmoothedAwayWitness ==
    /\ engine = "done"
    /\ Len(fileData) >= 5
    /\ fileData[3].seaLevel = 5000
    /\ Len(processedData.original) = Len(fileData)
    /\ \A e \in 1..Len(events) : events[e].type # "Spike"

---------------------------------------------------------------------------
(* The lowpass decomposition of series about one window long               *)
(* (specification SpecLowpass).                                            *)

\* Bound: the longest gap-filled series handed to the lowpass decomposition.
MaxLowpass == 242

\* n samples a minute apart whose levels step through eleven values at the
\* given pace.
LowpassSeries(n, pace) ==
    ArrayOf([i \in 1..n |-> Point((i - 1) * 60, 1000 + 100 * ((i * pace) % 11), i - 1)])

InitLowpass ==
    /\ Idle
    /\ \E n \in {2, 3, 5, MaxLowpass - 2, MaxLowpass - 1, MaxLowpass}, pace \in 1..10 :
          fnIn = LowpassSeries(n, pace)

\* Lines 21-23 and 36 with tideRemovalMethod lowpass: the decomposition of the
\* gap-filled series and the events of detectTidalPhases.
ApplyLowpass ==
    \E pd \in {Process(fnIn, config)} :
       Returns([processedData |-> pd,
                tidalPhases |-> DetectTidalPhases(pd.original, pd.tidal)])

SpecLowpass == InitLowpass /\ [][ApplyLowpass]_vars

\* C30: with the lowpass method and a gap-filled series of at most 241
\* samples every averaging window covers the whole series: the tidal series
\* is constant at the mean level, the residual is the original minus that
\* mean, and detectTidalPhases emits no event.
LowpassIsMeanWithinWindow ==
    (engine = "done" /\ Len(fnIn) <= 241) =>
        /\ \A i \in 1..Len(fnIn) :
              /\ fnOut.processedData.tidal[i].seaLevel = Mean(Levels(fnIn))
              /\ fnOut.processedData.residuals[i].seaLevel
                    = fnIn[i].seaLevel - Mean(Levels(fnIn))
        /\ fnOut.tidalPhases = <<>>

\* A series of exactly 241 samples that are not all equal has been
\* decomposed.
LowpassIsMeanWithinWindowWitness ==
    /\ engine = "done"
    /\ Len(fnIn) = 241
    /\ ~AllEqual(fnIn)
    /\ fnOut.tidalPhases = <<>>

===========================================================================
